---- MODULE Spec2Model ----
(***************************************************************************)
(* State-machine model of DISANAMath.h (BinManager, DISANAMath):           *)
(* the binned accumulation and normalisation of ComputeDVCS_CrossSection,  *)
(* and the grid combination of ComputeBeamSpinAsymmetry.                   *)
(*                                                                         *)
(* Numbers.  A double is modelled as an exact extended rational <<n, d>>   *)
(* in lowest terms with d >= 0: <<n, 1>> is the integer n, <<1, 0>> and    *)
(* <<-1, 0>> are +Inf and -Inf, <<0, 0>> is NaN (the IEEE results of       *)
(* x/0 and 0/0).  Rounding is not modelled.  Classifier values and edges   *)
(* are written in hundredths (Q2 = 1.5 is 150, t = 0.2 is 20, xB = 0.15    *)
(* is 15), angles in whole degrees.                                        *)
(*                                                                         *)
(* Histograms.  A TH1D is the record                                       *)
(*   [isNull, nbins, entries, c, hasSumw2, sumw2]                          *)
(* with c and sumw2 indexed 0 .. nbins+1 as in ROOT (0 is the underflow    *)
(* slot, nbins+1 the overflow slot).  ROOT stores the SQUARE of a bin's    *)
(* error in fSumw2, so the model keeps squared errors throughout:          *)
(* SetBinError(b, e) stores e*e and the error read back is its root.       *)
(***************************************************************************)
EXTENDS Integers, Sequences, FiniteSets, TLC

VARIABLES
    q2_bins, t_bins, xb_bins,      \* BinManager's three edge lists
    applyCorrection,               \* DISANAMath::applyCorrection
    correctionHist,                \* DISANAMath::correctionHist: 0 is nullptr, k is Tables[k]
    pc,                            \* position inside the running call
    luminosity,                    \* the luminosity argument, as the normalisation loop read it
    histograms,                    \* the local grid histograms[ix][iq][it]
    seen,                          \* how often df.Foreach has delivered each row of Events
    rawHist,                       \* the grid as it was when normalisation began
    sigma_pos, sigma_neg, pol,     \* the arguments of ComputeBeamSpinAsymmetry
    asym,                          \* its local grid asym, as it was when the call returned
    result,                        \* the grid the call returned
    cerr,                          \* what the call wrote to std::cerr, in order
    bsa_pc,                        \* "idle", "call" (entered) or "returned"
    df_dvcs_mc, df_pi0_mc,         \* the four row streams CalcPi0Corr is given,
    df_dvcs_data, df_pi0_data,     \*   each the rows of Events it delivers, in order
    df_dvcs_mc_CrossSection,       \* CalcPi0Corr's four local grids
    df_pi0_mc_CrossSection,
    df_dvcs_data_CrossSection,
    df_pi0_data_CrossSection,
    hCorr,                         \* the grid CalcPi0Corr returned
    pi0_pc,                        \* "idle", "call" (entered) or "returned"
    electron_in, electron_out,     \* the arguments of ComputeKinematics: four-vectors
    proton_in, proton_out, photon, \*   <<px, py, pz, E>>
    Q2_, nu_, y_, W_, xB_, t_,     \* the fields ComputeKinematics sets
    phi_deg_,
    mx2_ep_, emiss_, mx2_epg_, mx2_egamma_, DeltaE_,
    kin_pc,                        \* "idle", "call" (entered) or "returned"
    probe,                         \* one call of the lambda findBin: its arguments and result
    workers,                       \* the threads df.Foreach runs filler on: where each is in filler
    tiled_hists,                   \* the argument histograms of MakeTiledGridComparison: one grid per model
    tiled_pc,                      \* "idle", "call" (entered), "loop", "undefined", "crashed" or "returned"
    tiled_at,                      \* the loop indices t_bin, q2_bin, xb_bin, m (from 0)
    tiled_fault,                   \* the undefined behaviour met: "none", "null" or "range"
    drawn                          \* the <<m, xb_bin, q2_bin, t_bin>> whose histogram was drawn, in order

binVars  == <<q2_bins, t_bins, xb_bins>>
corrVars == <<applyCorrection, correctionHist>>
callVars == <<pc, luminosity, histograms, seen, rawHist>>

bsaVars == <<sigma_pos, sigma_neg, pol, asym, result, cerr, bsa_pc>>

pi0Inputs == <<df_dvcs_mc, df_pi0_mc, df_dvcs_data, df_pi0_data>>
pi0Vars == <<pi0Inputs, df_dvcs_mc_CrossSection, df_pi0_mc_CrossSection,
             df_dvcs_data_CrossSection, df_pi0_data_CrossSection, hCorr, pi0_pc>>

kinInputs == <<electron_in, electron_out, proton_in, proton_out, photon>>
kinVars == <<kinInputs, Q2_, nu_, y_, W_, xB_, t_, phi_deg_,
             mx2_ep_, emiss_, mx2_epg_, mx2_egamma_, DeltaE_, kin_pc>>

tiledVars == <<tiled_hists, tiled_pc, tiled_at, tiled_fault, drawn>>

vars == <<binVars, corrVars, callVars, probe, workers, bsaVars, pi0Vars, kinVars, tiledVars>>

----------------------------------------------------------------------------
(* Bounds and program constants *)

\* how many rows df.Foreach delivers in one call, at most
MaxEvents == 2

phi_min == 0
phi_max == 360
n_phi_bins == 18

----------------------------------------------------------------------------
(* double arithmetic *)

Sign(n) == IF n > 0 THEN 1 ELSE IF n < 0 THEN -1 ELSE 0

Abs(n) == IF n < 0 THEN -n ELSE n

RECURSIVE GCD(_, _)
GCD(a, b) == IF b = 0 THEN a ELSE GCD(b, a % b)

Norm(n, d) ==
    IF d = 0 THEN <<Sign(n), 0>>
    ELSE LET g == GCD(Abs(n), Abs(d))
             s == Sign(d)
         IN  <<(s * n) \div g, (s * d) \div g>>

Num(n) == <<n, 1>>

Zero == Num(0)

One == Num(1)

NaN == <<0, 0>>

IsNaN(x) == x = NaN

IsInf(x) == x[2] = 0 /\ x[1] # 0

IsFinite(x) == x[2] # 0

Neg(x) == <<-x[1], x[2]>>

\* x + y; Inf + Inf of one sign stays Inf, Inf - Inf is NaN
Add(x, y) ==
    IF IsInf(x) /\ IsInf(y) THEN (IF x = y THEN x ELSE NaN)
    ELSE IF x[2] = 0 \/ y[2] = 0 THEN Norm(x[1] * y[2] + y[1] * x[2], x[2] * y[2])
    ELSE LET g == GCD(x[2], y[2])
         IN  Norm(x[1] * (y[2] \div g) + y[1] * (x[2] \div g), (x[2] \div g) * y[2])

Sub(x, y) == Add(x, Neg(y))

\* x * y; Inf * 0 is NaN
Mul(x, y) ==
    IF x[1] = 0 \/ y[1] = 0 \/ x[2] = 0 \/ y[2] = 0 THEN Norm(x[1] * y[1], x[2] * y[2])
    ELSE LET g1 == GCD(Abs(x[1]), y[2])
             g2 == GCD(Abs(y[1]), x[2])
         IN  Norm((x[1] \div g1) * (y[1] \div g2), (x[2] \div g2) * (y[2] \div g1))

\* x / y; x/0 is +-Inf, 0/0 is NaN, x/Inf is 0 (0/y, y neither 0 nor NaN, is
\* written out: it is by far the most frequent division)
Div(x, y) ==
    IF x[1] = 0 /\ x[2] # 0 /\ y[1] # 0 THEN <<0, 1>>
    ELSE Mul(x, IF y[1] = 0 /\ y[2] # 0 THEN <<1, 0>>
                ELSE <<Sign(y[1]) * y[2], Abs(y[1])>>)

AbsNum(x) == <<Abs(x[1]), x[2]>>

\* std::sqrt(x) squared: x for x >= 0 (and +Inf), NaN for x < 0 and NaN
SqrtSq(x) == IF x[1] < 0 \/ IsNaN(x) THEN NaN ELSE x

----------------------------------------------------------------------------
(* TH1D *)

Slots(n) == 0 .. (n + 1)

NullHist == [isNull |-> TRUE, nbins |-> 0, entries |-> 0,
             c |-> [b \in Slots(0) |-> Zero], hasSumw2 |-> FALSE,
             sumw2 |-> [b \in Slots(0) |-> Zero]]

\* new TH1D(name, title, n, lo, hi): all slots 0, no Sumw2 structure
NewTH1D(n) == [isNull |-> FALSE, nbins |-> n, entries |-> 0,
               c |-> [b \in Slots(n) |-> Zero], hasSumw2 |-> FALSE,
               sumw2 |-> [b \in Slots(n) |-> Zero]]

\* mutant: a value outside the axis is clamped into the first or last bin
AxisFindBin_clamped(x, n, lo, hi) ==
    IF x < lo THEN 1
    ELSE IF ~(x < hi) THEN n
    ELSE 1 + ((n * (x - lo)) \div (hi - lo))

\* TAxis::FindBin on the fixed-width axis [lo, hi) of n bins
AxisFindBin(x, n, lo, hi) ==
    IF x < lo THEN 0
    ELSE IF ~(x < hi) THEN n + 1
    ELSE 1 + ((n * (x - lo)) \div (hi - lo))

\* TH1::Sumw2(): create the structure; with entries, seed it from the contents
Sumw2(h) ==
    IF h.hasSumw2 THEN h
    ELSE [h EXCEPT !.hasSumw2 = TRUE,
                   !.sumw2 = [b \in Slots(h.nbins) |->
                                 IF h.entries > 0 THEN AbsNum(h.c[b]) ELSE Zero]]

\* TH1::GetBinContent(b)
GetBinContent(h, b) == h.c[b]

\* TH1::GetBinError(b) squared: fSumw2[b], or |content| without the structure
GetBinError2(h, b) == IF h.hasSumw2 THEN h.sumw2[b] ELSE AbsNum(h.c[b])

\* mutant: the Sumw2 structure is created empty instead of seeded from the
\* contents filled so far
Fill_noSeed(h, x, w) ==
    LET bin == AxisFindBin(x, h.nbins, phi_min, phi_max)
        h0  == [h EXCEPT !.entries = @ + 1]
        h1  == IF ~h0.hasSumw2 /\ w # One THEN [h0 EXCEPT !.hasSumw2 = TRUE] ELSE h0
        h2  == IF h1.hasSumw2
               THEN [h1 EXCEPT !.sumw2[bin] = Add(@, Mul(w, w))]
               ELSE h1
    IN  [h2 EXCEPT !.c[bin] = Add(@, w)]

\* mutant: the variance grows by the weight, not by its square
Fill_linear(h, x, w) ==
    LET bin == AxisFindBin(x, h.nbins, phi_min, phi_max)
        h0  == [h EXCEPT !.entries = @ + 1]
        h1  == IF ~h0.hasSumw2 /\ w # One THEN Sumw2(h0) ELSE h0
        h2  == IF h1.hasSumw2
               THEN [h1 EXCEPT !.sumw2[bin] = Add(@, w)]
               ELSE h1
    IN  [h2 EXCEPT !.c[bin] = Add(@, w)]

\* TH1::Fill(x, w)
Fill(h, x, w) ==
    LET bin == AxisFindBin(x, h.nbins, phi_min, phi_max)
        h0  == [h EXCEPT !.entries = @ + 1]
        h1  == IF ~h0.hasSumw2 /\ w # One THEN Sumw2(h0) ELSE h0
        h2  == IF h1.hasSumw2
               THEN [h1 EXCEPT !.sumw2[bin] = Add(@, Mul(w, w))]
               ELSE h1
    IN  [h2 EXCEPT !.c[bin] = Add(@, w)]

\* TH1::SetBinContent(b, v)
SetBinContent(h, b, v) == [h EXCEPT !.entries = @ + 1, !.c[b] = v]

\* TH1::SetBinError(b, e), given e squared
SetBinError2(h, b, e2) == [Sumw2(h) EXCEPT !.sumw2[b] = e2]

----------------------------------------------------------------------------
(* THnSparseD correction tables *)

\* TAxis::FindBin on an axis given by its edges
TableFindBin(x, edges) ==
    IF x < edges[1] THEN 0
    ELSE IF ~(x < edges[Len(edges)]) THEN Len(edges)
    ELSE CHOOSE i \in 1 .. (Len(edges) - 1) : edges[i] <= x /\ x < edges[i + 1]

\* The tables SetCorrHist may be handed.  axes: the edges of the Q2, t, xB and
\* angle axes; filled: the stored factor of each filled 4-D bin.
Tables == <<
    [axes   |-> << <<100, 600>>, <<10, 30, 100>>, <<10, 60>>, <<0, 180, 360>> >>,
     filled |-> (<<1, 1, 1, 1>> :> Num(2)) @@ (<<1, 1, 1, 2>> :> One)]
    >>

\* THnSparse::GetBinContent(bins): a bin that was never filled reads 0
TableGetBinContent(tab, bins) ==
    IF bins \in DOMAIN tab.filled THEN tab.filled[bins] ELSE Zero

\* the object a member function runs on: its enable flag and table pointer
This == [applyCorrection |-> applyCorrection, correctionHist |-> correctionHist]

\* GetCorrectionFactor called on the object obj
GetCorrectionFactorOn(obj, Q2, t, xB, phi_deg) ==
    IF ~obj.applyCorrection \/ obj.correctionHist = 0 THEN One
    ELSE LET tab  == Tables[obj.correctionHist]
             bins == <<TableFindBin(Q2, tab.axes[1]), TableFindBin(t, tab.axes[2]),
                       TableFindBin(xB, tab.axes[3]), TableFindBin(phi_deg, tab.axes[4])>>
         IN  TableGetBinContent(tab, bins)

GetCorrectionFactor(Q2, t, xB, phi_deg) ==
    GetCorrectionFactorOn(This, Q2, t, xB, phi_deg)

----------------------------------------------------------------------------
(* BinManager *)

DefaultQ2Bins == <<100, 200, 400, 600>>
DefaultTBins  == <<10, 30, 60, 100>>
DefaultXBBins == <<10, 20, 40, 60>>

\* the edge lists the setters are called with
Q2Edges == {DefaultQ2Bins, <<100, 300>>}
TEdges  == {DefaultTBins, <<10, 100>>}
XBEdges == {DefaultXBBins, <<10, 60>>}

\* the exposures the caller passes
Luminosities == {Zero, One, Num(2)}

\* the rows of the data frame, as (Q2, t, xB, phi)
Events == <<
    <<150, 20, 15, 190>>,
    <<100, 10, 10, 0>>,
    <<200, 30, 20, 350>>,
    <<150, 20, 15, 100>>,
    <<600, 20, 15, 190>>,
    <<150, 100, 15, 190>>,
    <<150, 20, 5, 190>>,
    <<150, 20, 15, 360>>,
    <<150, 20, 15, -10>>
    >>

EventIds == 1 .. Len(Events)

----------------------------------------------------------------------------
(* ComputeDVCS_CrossSection *)

\* mutant: the search of std::lower_bound (first element not less than val)
RECURSIVE lower_bound_mut(_, _, _, _)
lower_bound_mut(edges, val, first, count) ==
    IF count <= 0 THEN first
    ELSE LET step == count \div 2
             it   == first + step
         IN  IF edges[it + 1] < val
             THEN lower_bound_mut(edges, val, it + 1, count - (step + 1))
             ELSE lower_bound_mut(edges, val, first, step)

\* std::upper_bound over [first, first + count): the first position whose
\* element is greater than val (positions counted from 0)
RECURSIVE upper_bound(_, _, _, _)
upper_bound(edges, val, first, count) ==
    IF count <= 0 THEN first
    ELSE LET step == count \div 2
             it   == first + step
         IN  IF ~(val < edges[it + 1])
             THEN upper_bound(edges, val, it + 1, count - (step + 1))
             ELSE upper_bound(edges, val, first, step)

\* mutant: a value outside the edges is clamped into the first or last bin
findBin_clamp(val, edges) ==
    LET it == upper_bound(edges, val, 0, Len(edges))
    IN  IF it = 0 THEN 0
        ELSE IF it = Len(edges) THEN Len(edges) - 2
        ELSE it - 1

findBin(val, edges) ==
    LET it == upper_bound(edges, val, 0, Len(edges))
    IN  IF it = 0 \/ it = Len(edges) THEN -1 ELSE it - 1

\* the grid after the allocation loop: n_xb x n_q2 x n_t fresh histograms
NewGrid(q2e, te, xbe) ==
    [ix \in 1 .. (Len(xbe) - 1) |->
        [iq \in 1 .. (Len(q2e) - 1) |->
            [it \in 1 .. (Len(te) - 1) |-> NewTH1D(n_phi_bins)]]]

\* the weight filler hands to Fill: factor / q2xBtbin_size, q2xBtbin_size = 1
fillWeightOn(obj, Q2, t, xB, phi) ==
    LET factor == IF obj.applyCorrection /\ obj.correctionHist # 0
                  THEN GetCorrectionFactorOn(obj, Q2, t, xB, phi) ELSE One
    IN  Div(factor, One)

fillWeight(Q2, t, xB, phi) == fillWeightOn(This, Q2, t, xB, phi)

\* the lambda filler applied to one row, on the grid it captured
fillerOn(obj, grid, Q2, t, xB, phi) ==
    LET iq == findBin(Q2, q2_bins)
        it == findBin(t, t_bins)
        ix == findBin(xB, xb_bins)
    IN  IF iq >= 0 /\ it >= 0 /\ ix >= 0
        THEN [grid EXCEPT ![ix + 1][iq + 1][it + 1] =
                             Fill(@, phi, fillWeightOn(obj, Q2, t, xB, phi))]
        ELSE grid

\* the filler of a call made on this object
filler(grid, Q2, t, xB, phi) == fillerOn(This, grid, Q2, t, xB, phi)

\* (phi_max - phi_min) / n_phi_bins
bin_width == Div(Num(phi_max - phi_min), Num(n_phi_bins))

\* mutant: the bin width is left out of the normalisation
normHist_noWidth(h, lumi) ==
    [h EXCEPT
       !.entries  = @ + h.nbins,
       !.c        = [b \in Slots(h.nbins) |->
                        IF b >= 1 /\ b <= h.nbins
                        THEN Div(GetBinContent(h, b), lumi)
                        ELSE h.c[b]],
       !.hasSumw2 = TRUE,
       !.sumw2    = [b \in Slots(h.nbins) |->
                        IF b >= 1 /\ b <= h.nbins
                        THEN Div(SqrtSq(GetBinContent(h, b)), Mul(lumi, lumi))
                        ELSE GetBinError2(h, b)]]

\* The loop over b = 1 .. GetNbinsX() on one histogram.  Pass b reads raw from
\* bin b, which no earlier pass wrote, and sets
\*   content(b) = raw / (luminosity * bin_width)
\*   error(b)   = sqrt(raw) / (luminosity * bin_width).
\* SetBinContent counts an entry; the first SetBinError creates the Sumw2
\* structure when there is none, which seeds the two outer slots (never
\* written by the loop) from their contents.
normHist(h, lumi) ==
    LET den  == Mul(lumi, bin_width)
        den2 == Mul(den, den)
    IN  [h EXCEPT
           !.entries  = @ + h.nbins,
           !.c        = [b \in Slots(h.nbins) |->
                            IF b >= 1 /\ b <= h.nbins
                            THEN Div(GetBinContent(h, b), den)
                            ELSE h.c[b]],
           !.hasSumw2 = TRUE,
           !.sumw2    = [b \in Slots(h.nbins) |->
                            IF b >= 1 /\ b <= h.nbins
                            THEN Div(SqrtSq(GetBinContent(h, b)), den2)
                            ELSE GetBinError2(h, b)]]

\* the normalisation loop over the whole grid
normalize(grid, lumi) ==
    [ix \in DOMAIN grid |->
        [iq \in DOMAIN grid[ix] |->
            [it \in DOMAIN grid[ix][iq] |->
                IF grid[ix][iq][it].isNull THEN grid[ix][iq][it]
                ELSE normHist(grid[ix][iq][it], lumi)]]]

----------------------------------------------------------------------------
(* Actions *)

Total(f) == LET RECURSIVE Sum(_)
                Sum(S) == IF S = {} THEN 0
                          ELSE LET x == CHOOSE y \in S : TRUE
                               IN  f[x] + Sum(S \ {x})
            IN  Sum(DOMAIN f)

NoProbe == [edges |-> <<>>, val |-> 0, called |-> FALSE, bin |-> 0]

\* the threads of an implicit-MT run, at most
NWorkers == 2

\* a thread that is not inside filler
IdleWorker == [at |-> "idle", row |-> 0, cell |-> <<0, 0, 0>>, snap |-> NullHist]

\* a default-constructed BinManager and DISANAMath
InitObject ==
    /\ q2_bins = DefaultQ2Bins
    /\ t_bins = DefaultTBins
    /\ xb_bins = DefaultXBBins
    /\ applyCorrection = FALSE
    /\ correctionHist = 0

\* no call of ComputeDVCS_CrossSection running
InitCall ==
    /\ pc = "idle"
    /\ luminosity = Zero
    /\ histograms = <<>>
    /\ seen = [e \in EventIds |-> 0]
    /\ rawHist = <<>>

\* findBin not called, no thread inside filler
InitAux ==
    /\ probe = NoProbe
    /\ workers = [w \in 1 .. NWorkers |-> IdleWorker]

\* no call of ComputeBeamSpinAsymmetry made
InitNoBSA ==
    /\ sigma_pos = <<>>
    /\ sigma_neg = <<>>
    /\ pol = One
    /\ asym = <<>>
    /\ result = <<>>
    /\ cerr = <<>>
    /\ bsa_pc = "idle"

\* no call of CalcPi0Corr made
InitNoPi0 ==
    /\ df_dvcs_mc = <<>>
    /\ df_pi0_mc = <<>>
    /\ df_dvcs_data = <<>>
    /\ df_pi0_data = <<>>
    /\ df_dvcs_mc_CrossSection = <<>>
    /\ df_pi0_mc_CrossSection = <<>>
    /\ df_dvcs_data_CrossSection = <<>>
    /\ df_pi0_data_CrossSection = <<>>
    /\ hCorr = <<>>
    /\ pi0_pc = "idle"

\* no call of ComputeKinematics made: the fields are not yet set
InitNoKin ==
    /\ electron_in = <<0, 0, 0, 0>>
    /\ electron_out = <<0, 0, 0, 0>>
    /\ proton_in = <<0, 0, 0, 0>>
    /\ proton_out = <<0, 0, 0, 0>>
    /\ photon = <<0, 0, 0, 0>>
    /\ Q2_ = NaN /\ nu_ = NaN /\ y_ = NaN /\ W_ = NaN /\ xB_ = NaN /\ t_ = NaN
    /\ phi_deg_ = NaN
    /\ mx2_ep_ = NaN /\ emiss_ = NaN /\ mx2_epg_ = NaN /\ mx2_egamma_ = NaN
    /\ DeltaE_ = NaN
    /\ kin_pc = "idle"

\* no call of MakeTiledGridComparison made
InitNoTiled ==
    /\ tiled_hists = <<>>
    /\ tiled_pc = "idle"
    /\ tiled_at = [t_bin |-> 0, q2_bin |-> 0, xb_bin |-> 0, m |-> 0]
    /\ tiled_fault = "none"
    /\ drawn = <<>>

InitRest == InitAux /\ InitNoBSA /\ InitNoPi0 /\ InitNoKin /\ InitNoTiled

Init == InitObject /\ InitCall /\ InitRest

SetQ2Bins ==
    /\ pc = "idle"
    /\ \E bins \in Q2Edges : q2_bins' = bins
    /\ UNCHANGED <<t_bins, xb_bins, corrVars, callVars, probe, workers, bsaVars, pi0Vars, kinVars, tiledVars>>

SetTBins ==
    /\ pc = "idle"
    /\ \E bins \in TEdges : t_bins' = bins
    /\ UNCHANGED <<q2_bins, xb_bins, corrVars, callVars, probe, workers, bsaVars, pi0Vars, kinVars, tiledVars>>

SetXBBins ==
    /\ pc = "idle"
    /\ \E bins \in XBEdges : xb_bins' = bins
    /\ UNCHANGED <<q2_bins, t_bins, corrVars, callVars, probe, workers, bsaVars, pi0Vars, kinVars, tiledVars>>

SetApplyCorrPi0BKG ==
    /\ pc = "idle"
    /\ \E enable \in BOOLEAN : applyCorrection' = enable
    /\ UNCHANGED <<binVars, correctionHist, callVars, probe, workers, bsaVars, pi0Vars, kinVars, tiledVars>>

SetCorrHist ==
    /\ pc = "idle"
    /\ \E hist \in 0 .. Len(Tables) : correctionHist' = hist
    /\ UNCHANGED <<binVars, applyCorrection, callVars, probe, workers, bsaVars, pi0Vars, kinVars, tiledVars>>

\* entry of ComputeDVCS_CrossSection up to df.Foreach: allocate the grid
BeginCrossSection ==
    /\ pc = "idle"
    /\ histograms' = NewGrid(q2_bins, t_bins, xb_bins)
    /\ pc' = "fill"
    /\ UNCHANGED <<binVars, corrVars, luminosity, seen, rawHist, probe, workers, bsaVars, pi0Vars, kinVars, tiledVars>>

\* df.Foreach delivers one more row to filler
ForeachRow ==
    /\ pc = "fill"
    /\ Total(seen) < MaxEvents
    /\ \E e \in EventIds :
          /\ histograms' = filler(histograms, Events[e][1], Events[e][2],
                                  Events[e][3], Events[e][4])
          /\ seen' = [seen EXCEPT ![e] = @ + 1]
    /\ UNCHANGED <<binVars, corrVars, pc, luminosity, rawHist, probe, workers, bsaVars, pi0Vars, kinVars, tiledVars>>

\* mutant: the normalisation loop runs while the stream is still being read
Normalize_early ==
    /\ pc = "fill"
    /\ \E lumi \in Luminosities :
          /\ luminosity' = lumi
          /\ histograms' = normalize(histograms, lumi)
    /\ rawHist' = histograms
    /\ pc' = "fill"
    /\ UNCHANGED <<binVars, corrVars, seen, probe, workers, bsaVars, pi0Vars, kinVars, tiledVars>>

\* the stream has ended: the normalisation loop runs, with the luminosity the
\* call was given (nothing reads it earlier), and the grid is returned
Normalize ==
    /\ pc = "fill"
    /\ \E lumi \in Luminosities :
          /\ luminosity' = lumi
          /\ histograms' = normalize(histograms, lumi)
    /\ rawHist' = histograms
    /\ pc' = "done"
    /\ UNCHANGED <<binVars, corrVars, seen, probe, workers, bsaVars, pi0Vars, kinVars, tiledVars>>

Next ==
    \/ SetQ2Bins
    \/ SetTBins
    \/ SetXBBins
    \/ SetApplyCorrPi0BKG
    \/ SetCorrHist
    \/ BeginCrossSection
    \/ ForeachRow
    \/ Normalize

Spec == Init /\ [][Next]_vars

----------------------------------------------------------------------------
(* One call of findBin on its own *)

\* largest edge value and longest edge list the lookup is tried on
MaxEdge == 5
MaxEdges == 4

\* every strictly increasing list of 2 .. MaxEdges values of 1 .. MaxEdge
EdgeLists ==
    {es \in UNION {[1 .. n -> 1 .. MaxEdge] : n \in 2 .. MaxEdges} :
        \A i \in 1 .. (Len(es) - 1) : es[i] < es[i + 1]}

InitFindBin ==
    /\ InitObject
    /\ InitCall
    /\ workers = [w \in 1 .. NWorkers |-> IdleWorker]
    /\ InitNoBSA
    /\ InitNoPi0
    /\ InitNoKin
    /\ InitNoTiled
    /\ \E es \in EdgeLists, v \in 0 .. (MaxEdge + 1) :
          probe = [edges |-> es, val |-> v, called |-> FALSE, bin |-> 0]

CallFindBin ==
    /\ ~probe.called
    /\ probe' = [probe EXCEPT !.called = TRUE,
                              !.bin = findBin(probe.val, probe.edges)]
    /\ UNCHANGED <<binVars, corrVars, callVars, workers, bsaVars, pi0Vars, kinVars, tiledVars>>

SpecFindBin == InitFindBin /\ [][CallFindBin]_vars

----------------------------------------------------------------------------
(* C1: findBin *)

\* C1.  For an edge list of at least 2 strictly increasing values, findBin
\* returns -1 exactly when the value is below the first edge or at or above
\* the last one, and otherwise the one index i (from 0) with
\* edges[i] <= value < edges[i+1].
FindBinHalfOpen ==
    probe.called =>
        LET es == probe.edges
            v  == probe.val
            r  == probe.bin
        IN  /\ (r = -1) <=> (v < es[1] \/ v >= es[Len(es)])
            /\ r # -1 => /\ r \in 0 .. (Len(es) - 2)
                         /\ es[r + 1] <= v
                         /\ v < es[r + 2]
            /\ \A i \in 0 .. (Len(es) - 2) :
                  (es[i + 1] <= v /\ v < es[i + 2]) => i = r

\* a value equal to an inner edge was put in the bin that starts at that edge
FindBinInnerEdge ==
    /\ probe.called
    /\ Len(probe.edges) >= 3
    /\ probe.val = probe.edges[2]
    /\ probe.bin = 1

----------------------------------------------------------------------------
(* What the claims say about a row, stated without the lookup code *)

InRange(v, edges) == edges[1] <= v /\ v < edges[Len(edges)]

\* the index (from 0) of the half-open interval of edges that holds v
BinOf(v, edges) ==
    CHOOSE i \in 0 .. (Len(edges) - 2) : edges[i + 1] <= v /\ v < edges[i + 2]

\* all three classifiers of row e are in range
Accepted(e) ==
    /\ InRange(Events[e][1], q2_bins)
    /\ InRange(Events[e][2], t_bins)
    /\ InRange(Events[e][3], xb_bins)

\* the cell of row e, as the grid is indexed: [xB][Q2][t], from 1
CellOf(e) ==
    <<BinOf(Events[e][3], xb_bins) + 1, BinOf(Events[e][1], q2_bins) + 1,
      BinOf(Events[e][2], t_bins) + 1>>

\* the slot of the angular axis that holds phi: one of the n_phi_bins bins
\* of equal width over [phi_min, phi_max), else the slot below or above them
SlotOf(phi) ==
    LET width == (phi_max - phi_min) \div n_phi_bins
    IN  IF phi < phi_min THEN 0
        ELSE IF phi >= phi_max THEN n_phi_bins + 1
        ELSE CHOOSE b \in 1 .. n_phi_bins :
                 /\ phi_min + (b - 1) * width <= phi
                 /\ phi < phi_min + b * width

\* the effective weight of row e
WeightOf(e) == fillWeight(Events[e][1], Events[e][2], Events[e][3], Events[e][4])

\* (content, variance) of every slot of every cell of a grid
Observed(grid) ==
    [ix \in DOMAIN grid |->
        [iq \in DOMAIN grid[ix] |->
            [it \in DOMAIN grid[ix][iq] |->
                [b \in Slots(grid[ix][iq][it].nbins) |->
                    <<GetBinContent(grid[ix][iq][it], b),
                      GetBinError2(grid[ix][iq][it], b)>>]]]]

\* the row a ForeachRow step delivers
StepEvent == CHOOSE e \in EventIds : seen'[e] # seen[e]

IsForeachStep == pc = "fill" /\ pc' = "fill" /\ seen' # seen

\* n times the (weight, squared weight) of row e added to its slot in led
Credit(led, e, n) ==
    LET cell == CellOf(e)
        w    == WeightOf(e)
    IN  [led EXCEPT ![cell[1]][cell[2]][cell[3]][SlotOf(Events[e][4])] =
            <<Add(@[1], Mul(Num(n), w)), Add(@[2], Mul(Num(n), Mul(w, w)))>>]

\* per slot, the sum of the weights and of the squared weights of the
\* accepted rows counted in bag, from row e on
RECURSIVE Ledger(_, _, _)
Ledger(bag, e, led) ==
    IF e > Len(Events) THEN led
    ELSE Ledger(bag, e + 1,
                IF bag[e] > 0 /\ Accepted(e) THEN Credit(led, e, bag[e]) ELSE led)

ZeroLedger ==
    [ix \in 1 .. (Len(xb_bins) - 1) |->
        [iq \in 1 .. (Len(q2_bins) - 1) |->
            [it \in 1 .. (Len(t_bins) - 1) |->
                [b \in Slots(n_phi_bins) |-> <<Zero, Zero>>]]]]

----------------------------------------------------------------------------
(* C2: rows out of range *)

\* C2.  A row with at least one classifier out of range of its edge list
\* changes no content and no variance of any bin of any cell (it is not
\* clamped into a first or last bin), and the pass goes on.
DiscardOutOfRange ==
    [][(IsForeachStep /\ ~Accepted(StepEvent)) =>
           /\ histograms' = histograms
           /\ Observed(histograms') = Observed(histograms)]_vars

\* a row whose Q2 equals the last edge was delivered to a fresh grid, which
\* is still as allocated
OutOfRangeRowSeen ==
    /\ pc = "fill"
    /\ Total(seen) = 1
    /\ \E e \in EventIds :
          /\ seen[e] = 1
          /\ Events[e][1] = q2_bins[Len(q2_bins)]
          /\ InRange(Events[e][2], t_bins)
          /\ InRange(Events[e][3], xb_bins)
    /\ histograms = NewGrid(q2_bins, t_bins, xb_bins)

----------------------------------------------------------------------------
(* C3: one bin per accepted row, variance as the sum of squared weights *)

AccumulateStep ==
    (IsForeachStep /\ Accepted(StepEvent)) =>
        Observed(histograms') = Credit(Observed(histograms), StepEvent, 1)

VarianceIsSumOfSquares ==
    pc = "fill" =>
        LET obs == Observed(histograms)
        IN  /\ obs = Ledger(seen, 1, ZeroLedger)
            /\ \A ix \in DOMAIN obs :
                 \A iq \in DOMAIN obs[ix] :
                   \A it \in DOMAIN obs[ix][iq] :
                     \A b \in Slots(n_phi_bins) : obs[ix][iq][it][b][2][1] >= 0
            /\ (\A e \in EventIds : seen[e] > 0 => WeightOf(e) = One)
                  => \A ix \in DOMAIN obs :
                       \A iq \in DOMAIN obs[ix] :
                         \A it \in DOMAIN obs[ix][iq] :
                           \A b \in Slots(n_phi_bins) :
                              obs[ix][iq][it][b][2] = obs[ix][iq][it][b][1]

\* C3.  An accepted row of effective weight w adds w to the content and w*w
\* to the variance of one slot of one cell, the cell of its three classifier
\* bins and the slot of its angle, and changes nothing else; so every
\* variance is the sum of the squared weights added to that slot, is the
\* content when all weights are 1, and is never negative.
AccumulateOneBin == [][AccumulateStep]_vars /\ []VarianceIsSumOfSquares

\* two rows of weights 1 and 2 were accumulated into one cell
WeightedRowsAccumulated ==
    /\ pc = "fill"
    /\ seen[1] = 1 /\ seen[4] = 1
    /\ Accepted(1) /\ Accepted(4)
    /\ WeightOf(1) = One /\ WeightOf(4) = Num(2)
    /\ CellOf(1) = CellOf(4)
    /\ LET h == histograms[CellOf(1)[1]][CellOf(1)[2]][CellOf(1)[3]]
       IN  /\ GetBinContent(h, SlotOf(100)) = Num(2)
           /\ GetBinError2(h, SlotOf(100)) = Num(4)
           /\ GetBinError2(h, SlotOf(190)) = One

----------------------------------------------------------------------------
(* C4, C5, C6: the normalised grid *)

\* every cell and every one of the n_phi_bins angular bins of a grid
Cells(grid) ==
    {<<ix, iq, it>> \in (DOMAIN grid) \X (1 .. (Len(q2_bins) - 1))
                                      \X (1 .. (Len(t_bins) - 1)) : TRUE}

At(grid, cell) == grid[cell[1]][cell[2]][cell[3]]

\* luminosity * bin width, the divisor the claims name
Exposure == Mul(luminosity, Num((phi_max - phi_min) \div n_phi_bins))

\* C4.  After the normalisation every angular bin holds
\* raw content / (L * width) and the error sqrt(variance) / (L * width),
\* the variance being the accumulated sum of squared weights, also when
\* correction weights other than 1 were applied.
NormalizedFromVariance ==
    pc = "done" =>
        \A cell \in Cells(histograms) :
            \A b \in 1 .. n_phi_bins :
                /\ GetBinContent(At(histograms, cell), b)
                      = Div(GetBinContent(At(rawHist, cell), b), Exposure)
                /\ GetBinError2(At(histograms, cell), b)
                      = Div(GetBinError2(At(rawHist, cell), b),
                            Mul(Exposure, Exposure))

\* C5.  A bin whose raw content is 0 (every bin, when no row was
\* accumulated) normalises to content 0 and error 0, never NaN, whatever
\* the exposure.
ZeroNormalizesToZero ==
    pc = "done" =>
        \A cell \in Cells(histograms) :
            \A b \in 1 .. n_phi_bins :
                GetBinContent(At(rawHist, cell), b) = Zero =>
                    /\ GetBinContent(At(histograms, cell), b) = Zero
                    /\ GetBinError2(At(histograms, cell), b) = Zero

\* the run of the end-to-end scenario: the default edges, the one row
\* (1.5, 0.2, 0.15, 190) of weight 1, exposure 1
EndToEndRun ==
    /\ pc = "done"
    /\ q2_bins = <<100, 200, 400, 600>>
    /\ t_bins = <<10, 30, 60, 100>>
    /\ xb_bins = <<10, 20, 40, 60>>
    /\ seen = [e \in EventIds |-> IF Events[e] = <<150, 20, 15, 190>> THEN 1 ELSE 0]
    /\ ~(applyCorrection /\ correctionHist # 0)
    /\ luminosity = One

\* C6.  The end-to-end scenario leaves 1/20 in angular bin 9 (counted from
\* 0: ROOT's bin 10) of cell (0,0,0) and 0 in every other bin of every cell.
EndToEnd ==
    EndToEndRun =>
        /\ Cells(histograms) = (1 .. 3) \X (1 .. 3) \X (1 .. 3)
        /\ \A cell \in Cells(histograms) :
              \A b \in Slots(n_phi_bins) :
                  GetBinContent(At(histograms, cell), b) =
                      IF cell = <<1, 1, 1>> /\ b = 9 + 1 THEN <<1, 20>> ELSE Zero

EndToEndReached ==
    /\ EndToEndRun
    /\ GetBinContent(histograms[1][1][1], 10) = <<1, 20>>

----------------------------------------------------------------------------
(* The accumulation pass on its own: df.Foreach on a freshly allocated grid *)

\* the grid just allocated, for either list of Q2 edges, with the correction
\* off and no table or on with a table
InitMerge ==
    /\ q2_bins \in Q2Edges
    /\ t_bins = DefaultTBins
    /\ xb_bins = DefaultXBBins
    /\ applyCorrection \in BOOLEAN
    /\ correctionHist = (IF applyCorrection THEN 1 ELSE 0)
    /\ pc = "fill"
    /\ luminosity = Zero
    /\ histograms = NewGrid(q2_bins, t_bins, xb_bins)
    /\ seen = [e \in EventIds |-> 0]
    /\ rawHist = <<>>
    /\ InitRest

SpecMerge == InitMerge /\ [][ForeachRow]_vars

----------------------------------------------------------------------------
(* C7: accumulation by parts *)

\* filler applied n times to row e
RECURSIVE FillTimes(_, _, _)
FillTimes(grid, e, n) ==
    IF n = 0 THEN grid
    ELSE FillTimes(filler(grid, Events[e][1], Events[e][2], Events[e][3],
                          Events[e][4]), e, n - 1)

\* the rows counted in bag accumulated, in the order of Events, from row e on
RECURSIVE FillAll(_, _, _)
FillAll(bag, e, grid) ==
    IF e > Len(Events) THEN grid
    ELSE FillAll(bag, e + 1, FillTimes(grid, e, bag[e]))

\* the deliveries counted in seen, one token each
Tokens == {<<e, k>> \in EventIds \X (1 .. MaxEvents) : k <= seen[e]}

BagOf(tokens) == [e \in EventIds |-> Cardinality({t \in tokens : t[1] = e})]

\* two grids of one shape added element-wise, content and variance
MergeObserved(a, b) ==
    [ix \in DOMAIN a |->
        [iq \in DOMAIN a[ix] |->
            [it \in DOMAIN a[ix][iq] |->
                [s \in DOMAIN a[ix][iq][it] |->
                    <<Add(a[ix][iq][it][s][1], b[ix][iq][it][s][1]),
                      Add(a[ix][iq][it][s][2], b[ix][iq][it][s][2])>>]]]]

\* the parts accumulated each into an empty grid of its own, then merged
MergedParts(part) ==
    LET empty == NewGrid(q2_bins, t_bins, xb_bins)
    IN  MergeObserved(Observed(FillAll(BagOf(part), 1, empty)),
                      Observed(FillAll(BagOf(Tokens \ part), 1, empty)))

\* C7.  For every split of the delivered rows into two parts, accumulating
\* each part into an empty grid of the same shape and adding the two grids
\* element-wise (content and variance) gives the grid the whole stream
\* produced, in whatever order the rows arrived.
MergeEqualsWhole ==
    pc = "fill" =>
        \A part \in SUBSET Tokens : MergedParts(part) = Observed(histograms)

\* a row of weight 1 and a row of weight 2 went into one histogram, and the
\* split that separates them merges to what the histogram holds
MergedSplitReached ==
    /\ pc = "fill"
    /\ seen[1] = 1 /\ seen[4] = 1
    /\ WeightOf(1) = One /\ WeightOf(4) = Num(2)
    /\ Accepted(1) /\ CellOf(1) = CellOf(4)
    /\ At(histograms, CellOf(1)).hasSumw2
    /\ MergedParts({<<1, 1>>}) = Observed(histograms)

----------------------------------------------------------------------------
(* df.Foreach under implicit multi-threading: filler runs on several threads, *)
(* all of them on the one grid the lambda captured by reference.             *)
(* TH1D::Fill is an unsynchronised read-modify-write of the slot (and of     *)
(* the entry count), so a thread's Fill is two steps: it reads the           *)
(* histogram, and later writes back what it computed from what it read.      *)

\* rows one multi-threaded pass delivers, at most
MaxMTRows == 3

\* a default-constructed object, the grid just allocated
InitMT ==
    /\ InitObject
    /\ pc = "fill"
    /\ luminosity = Zero
    /\ histograms = NewGrid(q2_bins, t_bins, xb_bins)
    /\ seen = [e \in EventIds |-> 0]
    /\ rawHist = <<>>
    /\ InitRest

\* a thread is handed a row and runs filler up to the reads inside Fill;
\* a row out of range makes filler return at once
MTEnter ==
    /\ pc = "fill"
    /\ Total(seen) < MaxMTRows
    /\ \E w \in 1 .. NWorkers, e \in EventIds :
          /\ workers[w].at = "idle"
          /\ seen' = [seen EXCEPT ![e] = @ + 1]
          /\ LET iq == findBin(Events[e][1], q2_bins)
                 it == findBin(Events[e][2], t_bins)
                 ix == findBin(Events[e][3], xb_bins)
             IN  IF iq >= 0 /\ it >= 0 /\ ix >= 0
                 THEN workers' = [workers EXCEPT ![w] =
                         [at |-> "filling", row |-> e,
                          cell |-> <<ix + 1, iq + 1, it + 1>>,
                          snap |-> histograms[ix + 1][iq + 1][it + 1]]]
                 ELSE workers' = workers
    /\ UNCHANGED <<binVars, corrVars, pc, luminosity, histograms, rawHist, probe, bsaVars, pi0Vars, kinVars, tiledVars>>

\* the thread writes what Fill computed from the values it read: the entry
\* count, the slot's content and, where the structure exists, its sumw2
MTWrite ==
    /\ pc = "fill"
    /\ \E w \in 1 .. NWorkers :
          /\ workers[w].at = "filling"
          /\ LET k   == workers[w]
                 e   == k.row
                 bin == AxisFindBin(Events[e][4], k.snap.nbins, phi_min, phi_max)
                 f   == Fill(k.snap, Events[e][4],
                             fillWeight(Events[e][1], Events[e][2], Events[e][3],
                                        Events[e][4]))
                 cur == histograms[k.cell[1]][k.cell[2]][k.cell[3]]
             IN  histograms' =
                    [histograms EXCEPT ![k.cell[1]][k.cell[2]][k.cell[3]] =
                        [cur EXCEPT !.entries = f.entries,
                                    !.c[bin] = f.c[bin],
                                    !.sumw2[bin] = IF cur.hasSumw2 /\ f.hasSumw2
                                                   THEN f.sumw2[bin] ELSE @]]
          /\ workers' = [workers EXCEPT ![w] = IdleWorker]
    /\ UNCHANGED <<binVars, corrVars, pc, luminosity, seen, rawHist, probe, bsaVars, pi0Vars, kinVars, tiledVars>>

NextMT == MTEnter \/ MTWrite

SpecMT == InitMT /\ [][NextMT]_vars

----------------------------------------------------------------------------
(* C8: accumulation on several threads *)

\* C8.  When filler runs on several threads, no update is lost: once every
\* thread has left filler, the content of every slot is the sum of the
\* weights of the accepted rows of that slot.
NoLostUpdate ==
    (pc = "fill" /\ \A w \in 1 .. NWorkers : workers[w].at = "idle") =>
        LET led == Ledger(seen, 1, ZeroLedger)
        IN  \A cell \in Cells(histograms) :
               \A b \in Slots(n_phi_bins) :
                  GetBinContent(At(histograms, cell), b) = At(led, cell)[b][1]

----------------------------------------------------------------------------
(* ComputeBeamSpinAsymmetry *)

\* TObject::Clone: a copy of the histogram
Clone(h) == h

\* TH1::Reset: contents, errors and entry count to 0; a Sumw2 structure stays
Reset(h) == [h EXCEPT !.entries = 0,
                      !.c = [b \in Slots(h.nbins) |-> Zero],
                      !.sumw2 = [b \in Slots(h.nbins) |-> Zero]]

\* mutant: the quotient without the test of the denominator
BSA_A_unguarded(Np, Nm) == Div(Sub(Np, Nm), Add(Np, Nm))

\* mutant: the numerator is Np, not Np - Nm
BSA_A_noDiff(Np, Nm) ==
    IF Add(Np, Nm) # Zero THEN Div(Np, Add(Np, Nm)) ELSE Zero

\* A = (den != 0) ? num / den : 0.0
BSA_A(Np, Nm) ==
    LET den == Add(Np, Nm)
        num == Sub(Np, Nm)
    IN  IF den # Zero THEN Div(num, den) ELSE Zero

\* mutant: the two uncertainties change places, sqrt((Np*Ep)^2 + (Nm*Em)^2)
BSA_E2_swapped(Np, Nm, Ep2, Em2) ==
    LET den == Add(Np, Nm)
        d2  == Mul(den, den)
    IN  IF den # Zero
        THEN Mul(Div(Num(4), Mul(d2, d2)),
                 SqrtSq(Add(Mul(Mul(Np, Np), Ep2), Mul(Mul(Nm, Nm), Em2))))
        ELSE Zero

\* E squared, E = (den != 0) ? 2.0/(den*den) * sqrt((Nm*Ep)^2 + (Np*Em)^2) : 0.0,
\* from the squares of Ep and Em
BSA_E2(Np, Nm, Ep2, Em2) ==
    LET den == Add(Np, Nm)
        d2  == Mul(den, den)
    IN  IF den # Zero
        THEN Mul(Div(Num(4), Mul(d2, d2)),
                 SqrtSq(Add(Mul(Mul(Nm, Nm), Ep2), Mul(Mul(Np, Np), Em2))))
        ELSE Zero

\* the loop over the angular bins b, b + 1, ..., hp->GetNbinsX()
RECURSIVE BSA_bins(_, _, _, _, _)
BSA_bins(ha, hp, hm, p, b) ==
    IF b > hp.nbins THEN ha
    ELSE LET Np  == GetBinContent(hp, b)
             Nm  == GetBinContent(hm, b)
             Ep2 == GetBinError2(hp, b)
             Em2 == GetBinError2(hm, b)
             A   == BSA_A(Np, Nm)
             E2  == BSA_E2(Np, Nm, Ep2, Em2)
             h1  == SetBinContent(ha, b, Div(A, p))
             h2  == SetBinError2(h1, b, Div(E2, Mul(p, p)))
         IN  BSA_bins(h2, hp, hm, p, b + 1)

\* one cell with both histograms: the clone, reset and filled
BSA_hist(hp, hm, p) == BSA_bins(Reset(Clone(hp)), hp, hm, p, 1)

\* mutant: the first null input ends the loop over it (break for continue)
BSA_cells_break(P, N, p) ==
    [it \in 1 .. Len(P) |->
        IF \E j \in 1 .. it : P[j].isNull \/ N[j].isNull THEN NullHist
        ELSE BSA_hist(P[it], N[it], p)]

\* the loop over it for one (ix, iq): a null input leaves the cell nullptr
BSA_cells(P, N, p) ==
    [it \in 1 .. Len(P) |->
        IF P[it].isNull \/ N[it].isNull THEN NullHist
        ELSE BSA_hist(P[it], N[it], p)]

\* the warnings of that loop, in order (indices as the code prints them)
BSA_warnings(P, N, ix, iq) ==
    SelectSeq([it \in 1 .. Len(P) |-> <<"WARNING: null hist", ix - 1, iq - 1, it - 1>>],
              LAMBDA m : P[m[4] + 1].isNull \/ N[m[4] + 1].isNull)

\* the loop over iq for one ix, from iq on; st is [rows, cerr, ok], rows being
\* asym[ix], and ok turning FALSE at the return of a mismatch
RECURSIVE BSA_loopQ2(_, _, _, _, _, _)
BSA_loopQ2(P, N, p, ix, iq, st) ==
    IF iq > Len(P) THEN st
    ELSE IF Len(P[iq]) # Len(N[iq])
    THEN [st EXCEPT !.cerr = Append(@, <<"ERROR: t dim mismatch", ix - 1, iq - 1>>),
                    !.ok = FALSE]
    ELSE BSA_loopQ2(P, N, p, ix, iq + 1,
                    [st EXCEPT !.rows[iq] = BSA_cells(P[iq], N[iq], p),
                               !.cerr = @ \o BSA_warnings(P[iq], N[iq], ix, iq)])

\* the loop over ix, from ix on; st is [asym, cerr, ok]
RECURSIVE BSA_loopXB(_, _, _, _, _)
BSA_loopXB(P, N, p, ix, st) ==
    IF ix > Len(P) THEN st
    ELSE IF Len(P[ix]) # Len(N[ix])
    THEN [st EXCEPT !.cerr = Append(@, <<"ERROR: Q2 dim mismatch", ix - 1>>),
                    !.ok = FALSE]
    ELSE LET r   == BSA_loopQ2(P[ix], N[ix], p, ix, 1,
                               [rows |-> [iq \in 1 .. Len(P[ix]) |-> <<>>],
                                cerr |-> st.cerr, ok |-> TRUE])
             st1 == [asym |-> [st.asym EXCEPT ![ix] = r.rows],
                     cerr |-> r.cerr, ok |-> r.ok]
         IN  IF r.ok THEN BSA_loopXB(P, N, p, ix + 1, st1) ELSE st1

\* the body of the call up to its return statement
BSA_run(P, N, p) ==
    IF Len(P) # Len(N)
    THEN [asym |-> <<>>, cerr |-> <<<<"ERROR: xB dim mismatch">>>>, ok |-> FALSE]
    ELSE BSA_loopXB(P, N, p, 1,
                    [asym |-> [ix \in 1 .. Len(P) |-> <<>>], cerr |-> <<>>, ok |-> TRUE])

\* mutant: a mismatch returns the grid as far as it was computed
BSA_return_partial(st) == st.asym

\* what the return statement reached hands back: {} at a mismatch, else asym
BSA_return(st) == IF st.ok THEN st.asym ELSE <<>>

\* an input histogram: n_phi_bins bins, contents and squared errors of bins
\* 1 and 2 given, all other slots 0
MkHist(c1, e1, c2, e2) ==
    [isNull |-> FALSE, nbins |-> n_phi_bins, entries |-> 2,
     c |-> [b \in Slots(n_phi_bins) |->
              IF b = 1 THEN c1 ELSE IF b = 2 THEN c2 ELSE Zero],
     hasSumw2 |-> TRUE,
     sumw2 |-> [b \in Slots(n_phi_bins) |->
                  IF b = 1 THEN e1 ELSE IF b = 2 THEN e2 ELSE Zero]]

HA == MkHist(Num(3), Num(3), One, One)
HB == MkHist(One, One, One, One)
HC == MkHist(Zero, Zero, Zero, Zero)
HD == MkHist(Num(-1), One, <<1, 2>>, <<1, 4>>)
HE == MkHist(Zero, One, Zero, Num(4))

\* the grids a caller passes: [ix][iq][it], rectangular or ragged, with null cells
SigmaGrids ==
    { <<>>,
      << << <<HA>> >> >>,
      << << <<HB>> >> >>,
      << << <<HC>> >> >>,
      << << <<HD>> >> >>,
      << << <<HE>> >> >>,
      << << <<HA, NullHist>> >> >>,
      << << <<NullHist, HB>> >> >>,
      << << <<HA>>, <<HB>> >> >>,
      << << <<HB>>, <<HA, HC>> >> >>,
      << << <<HA>> >>, << <<HB>> >> >>,
      << << <<HB>> >>, << <<HA>>, <<HD>> >> >> }

\* the values of the argument pol: the default 1.0, 0.5, 0 and -1
Polarizations == {One, <<1, 2>>, Zero, Num(-1)}

\* a default-constructed object on which ComputeBeamSpinAsymmetry is called
InitBSA ==
    /\ InitObject
    /\ InitCall
    /\ InitAux
    /\ InitNoPi0
    /\ InitNoKin
    /\ InitNoTiled
    /\ sigma_pos \in SigmaGrids
    /\ sigma_neg \in SigmaGrids
    /\ pol \in Polarizations
    /\ asym = <<>>
    /\ result = <<>>
    /\ cerr = <<>>
    /\ bsa_pc = "call"

ComputeBeamSpinAsymmetry ==
    /\ bsa_pc = "call"
    /\ LET st == BSA_run(sigma_pos, sigma_neg, pol)
       IN  /\ asym' = st.asym
           /\ cerr' = st.cerr
           /\ result' = BSA_return(st)
    /\ bsa_pc' = "returned"
    /\ UNCHANGED <<binVars, corrVars, callVars, probe, workers, sigma_pos, sigma_neg, pol,
                   pi0Vars, kinVars, tiledVars>>

SpecBSA == InitBSA /\ [][ComputeBeamSpinAsymmetry]_vars

----------------------------------------------------------------------------
(* C9, C10: the beam-spin asymmetry *)

\* the cells (ix, iq, it) of a grid of any shape
GridCells(g) ==
    UNION {UNION {{<<ix, iq, it>> : it \in 1 .. Len(g[ix][iq])} :
                  iq \in 1 .. Len(g[ix])} :
           ix \in 1 .. Len(g)}

\* the cells (ix, iq, it) two grids both have
CommonCells(P, N) ==
    {cell \in GridCells(P) :
        /\ cell[1] <= Len(N)
        /\ cell[2] <= Len(N[cell[1]])
        /\ cell[3] <= Len(N[cell[1]][cell[2]])}

\* the cells of the inputs where both histograms exist
BothExist ==
    {cell \in CommonCells(sigma_pos, sigma_neg) :
        ~At(sigma_pos, cell).isNull /\ ~At(sigma_neg, cell).isNull}

\* the cells of the local grid that were computed
Computed ==
    {cell \in GridCells(asym) : ~At(asym, cell).isNull}

\* content and squared uncertainty of bin b of a computed cell are v and u2
BinIs(cell, b, v, u2) ==
    /\ GetBinContent(At(asym, cell), b) = v
    /\ GetBinError2(At(asym, cell), b) = u2

\* the stated asymmetry and squared uncertainty of a bin with Np + Nm # 0
StatedA(Np, Nm) == Div(Div(Sub(Np, Nm), Add(Np, Nm)), pol)

StatedU2(Np, Nm, Ep2, Em2) ==
    LET den == Add(Np, Nm)
    IN  Div(Div(Mul(Num(4), Add(Mul(Mul(Nm, Nm), Ep2), Mul(Mul(Np, Np), Em2))),
                Mul(Mul(den, den), Mul(den, den))),
            Mul(pol, pol))

\* every bin of every computed cell follows the formula, zeroValue and zeroU2
\* being what a bin with Np + Nm = 0 gets; and on a call that returned
\* normally the computed cells are those where both inputs exist
FormulaHolds(zeroValue, zeroU2) ==
    bsa_pc = "returned" =>
        /\ \A cell \in Computed :
              /\ cell \in BothExist
              /\ \A b \in 1 .. n_phi_bins :
                    LET Np  == GetBinContent(At(sigma_pos, cell), b)
                        Nm  == GetBinContent(At(sigma_neg, cell), b)
                        Ep2 == GetBinError2(At(sigma_pos, cell), b)
                        Em2 == GetBinError2(At(sigma_neg, cell), b)
                    IN  IF Add(Np, Nm) # Zero
                        THEN BinIs(cell, b, StatedA(Np, Nm), StatedU2(Np, Nm, Ep2, Em2))
                        ELSE BinIs(cell, b, zeroValue, zeroU2)
        /\ (\A i \in 1 .. Len(cerr) : cerr[i][1] = "WARNING: null hist") =>
              /\ result = asym
              /\ Computed = BothExist

\* C9 as stated.  For every cell where both input histograms exist and every
\* angular bin: value ((Np - Nm)/(Np + Nm))/pol and uncertainty
\* ((2/(Np + Nm)^2) sqrt((Nm Ep)^2 + (Np Em)^2))/pol when Np + Nm # 0, and
\* value 0 and uncertainty 0 when Np + Nm = 0.  (Uncertainties are compared
\* by their squares, which is what the histogram stores.)
AsymmetryFormula == FormulaHolds(Zero, Zero)

\* C9, amended.  As above when Np + Nm # 0; when Np + Nm = 0 the value and the
\* uncertainty are 0 divided by pol: 0 for pol # 0, and not a number for
\* pol = 0.
AsymmetryFormulaOverPol == FormulaHolds(Div(Zero, pol), Div(Zero, Mul(pol, pol)))

\* a call with pol = 0.5 has returned a cell with one bin where Np + Nm = 0
\* although Np # 0, and one bin with a non-zero asymmetry
AsymmetryComputed ==
    /\ bsa_pc = "returned"
    /\ pol = <<1, 2>>
    /\ \E cell \in Computed \cap GridCells(result) :
          /\ \E b \in 1 .. n_phi_bins :
                /\ GetBinContent(At(sigma_pos, cell), b) # Zero
                /\ Add(GetBinContent(At(sigma_pos, cell), b),
                       GetBinContent(At(sigma_neg, cell), b)) = Zero
                /\ GetBinContent(At(result, cell), b) = Zero
          /\ \E b \in 1 .. n_phi_bins :
                /\ GetBinContent(At(result, cell), b) \notin {Zero, NaN}
                /\ GetBinError2(At(result, cell), b) \notin {Zero, NaN}

\* the sizes of a grid in its three dimensions
ShapeOf(g) == [ix \in 1 .. Len(g) |-> [iq \in 1 .. Len(g[ix]) |-> Len(g[ix][iq])]]

ReportsMismatch ==
    \E i \in 1 .. Len(cerr) :
        cerr[i][1] \in {"ERROR: xB dim mismatch", "ERROR: Q2 dim mismatch",
                        "ERROR: t dim mismatch"}

\* C10.  If the two input grids differ in size in any of the three dimensions
\* (at the outer level, or inside any outer or middle index), the call
\* reports a shape-mismatch error and returns an empty grid, also when cells
\* before the mismatch were already computed.
MismatchReturnsEmpty ==
    (bsa_pc = "returned" /\ ShapeOf(sigma_pos) # ShapeOf(sigma_neg)) =>
        /\ ReportsMismatch
        /\ result = <<>>

\* a call has returned empty-handed from a mismatch it met after it had
\* computed a cell
MismatchAfterComputedCell ==
    /\ bsa_pc = "returned"
    /\ ShapeOf(sigma_pos) # ShapeOf(sigma_neg)
    /\ Computed # {}
    /\ ReportsMismatch
    /\ result = <<>>

----------------------------------------------------------------------------
(* C11: cells with a missing input *)

\* the cells of the inputs where a histogram is missing
Skipped ==
    {cell \in CommonCells(sigma_pos, sigma_neg) :
        At(sigma_pos, cell).isNull \/ At(sigma_neg, cell).isNull}

\* the cells the warning lines of std::cerr name
WarnedCells ==
    {<<cerr[i][2] + 1, cerr[i][3] + 1, cerr[i][4] + 1>> :
        i \in {j \in 1 .. Len(cerr) : cerr[j][1] = "WARNING: null hist"}}

\* on inputs of one shape the call does not abort: the result has that shape,
\* the cells with a missing input are absent and all others are computed
SkippedNotFatal ==
    /\ ShapeOf(result) = ShapeOf(sigma_pos)
    /\ \A cell \in Skipped : At(result, cell).isNull
    /\ \A cell \in BothExist : ~At(result, cell).isNull

\* a line of std::cerr that states a number and is no shape error
CountReported(n) ==
    \E i \in 1 .. Len(cerr) :
        /\ Len(cerr[i]) = 2
        /\ cerr[i][1] # "ERROR: Q2 dim mismatch"
        /\ cerr[i][2] = n

----------------------------------------------------------------------------
(* C12: equal yields *)

\* the two inputs have one shape, no missing cell, and Np = Nm in every
\* angular bin of every cell
EqualYields ==
    /\ ShapeOf(sigma_pos) = ShapeOf(sigma_neg)
    /\ GridCells(sigma_pos) # {}
    /\ \A cell \in GridCells(sigma_pos) :
          /\ cell \in BothExist
          /\ \A b \in 1 .. n_phi_bins :
                GetBinContent(At(sigma_pos, cell), b) =
                    GetBinContent(At(sigma_neg, cell), b)

\* every angular bin of every cell of the result holds the value v
ResultEverywhere(v) ==
    /\ GridCells(result) = GridCells(sigma_pos)
    /\ \A cell \in GridCells(result) :
          /\ ~At(result, cell).isNull
          /\ \A b \in 1 .. n_phi_bins : GetBinContent(At(result, cell), b) = v

\* C12 as stated.  If Np = Nm in every angular bin of every cell (bins where
\* both are 0 included), the asymmetry is 0 in every bin, for every beam
\* polarization the caller may pass.
EqualYieldsGiveZero ==
    (bsa_pc = "returned" /\ EqualYields) => ResultEverywhere(Zero)

\* C12, amended.  If Np = Nm in every angular bin of every cell, the asymmetry
\* is 0 in every bin for every beam polarization other than 0; for
\* polarization 0 it is 0/0, not a number, in every bin.
EqualYieldsGiveZeroOverPol ==
    (bsa_pc = "returned" /\ EqualYields) =>
        ResultEverywhere(IF pol = Zero THEN NaN ELSE Zero)

\* a call with a polarization other than 0 and 1 has returned from equal
\* yields that are non-zero in one bin and zero in another
EqualYieldsReturned ==
    /\ bsa_pc = "returned"
    /\ EqualYields
    /\ pol \notin {Zero, One}
    /\ \E cell \in GridCells(result) :
          /\ \E b \in 1 .. n_phi_bins : GetBinContent(At(sigma_pos, cell), b) # Zero
          /\ \E b \in 1 .. n_phi_bins : GetBinContent(At(sigma_pos, cell), b) = Zero
          /\ \A b \in 1 .. n_phi_bins : GetBinContent(At(result, cell), b) = Zero

----------------------------------------------------------------------------
(* C13: an empty minus-helicity bin *)

\* the bins (cell, b) of computed cells with Nm = 0 and Np # 0
EmptyMinusBins ==
    {cb \in Computed \X (1 .. n_phi_bins) :
        /\ GetBinContent(At(sigma_neg, cb[1]), cb[2]) = Zero
        /\ GetBinContent(At(sigma_pos, cb[1]), cb[2]) # Zero}

\* with polarization 1, every bin with Nm = 0 and Np # 0 holds the asymmetry
\* 1 and the squared uncertainty 4 x2 / Np^2, x2 = Ep^2 if fromPlus, else Em^2
EmptyMinusBinIs(fromPlus) ==
    (bsa_pc = "returned" /\ pol = One) =>
        \A cb \in EmptyMinusBins :
            LET Np == GetBinContent(At(sigma_pos, cb[1]), cb[2])
                x2 == IF fromPlus THEN GetBinError2(At(sigma_pos, cb[1]), cb[2])
                      ELSE GetBinError2(At(sigma_neg, cb[1]), cb[2])
            IN  BinIs(cb[1], cb[2], One, Div(Mul(Num(4), x2), Mul(Np, Np)))

\* C13 as stated.  For a bin with Nm = 0 and Np # 0 (polarization 1) the
\* asymmetry is 1 and the uncertainty is 2 Ep / Np, Ep the uncertainty of the
\* plus-helicity bin, whatever the value of Em.
EmptyMinusUsesEp == EmptyMinusBinIs(TRUE)

\* C13, amended.  For a bin with Nm = 0 and Np # 0 (polarization 1) the
\* asymmetry is 1 and the uncertainty is 2 Em / |Np|, Em the uncertainty of
\* the minus-helicity bin, whatever the value of Ep.
EmptyMinusUsesEm == EmptyMinusBinIs(FALSE)

\* a call with polarization 1 has computed a bin with Nm = 0, Np # 0 and
\* two different non-zero input uncertainties
EmptyMinusComputed ==
    /\ bsa_pc = "returned"
    /\ pol = One
    /\ \E cb \in EmptyMinusBins :
          /\ cb[1] \in GridCells(result)
          /\ GetBinError2(At(sigma_neg, cb[1]), cb[2]) # Zero
          /\ GetBinError2(At(sigma_pos, cb[1]), cb[2]) #
                 GetBinError2(At(sigma_neg, cb[1]), cb[2])
          /\ GetBinContent(At(result, cb[1]), cb[2]) = One

----------------------------------------------------------------------------
(* CalcPi0Corr *)

\* mutant: the quotient is taken also where the divisor is 0
Divide_unguarded(this, h1, h2) ==
    [this EXCEPT
       !.c = [b \in Slots(this.nbins) |-> Div(h1.c[b], h2.c[b])],
       !.hasSumw2 = TRUE]

\* this->Divide(h1, h2): per slot b1/b2, and 0 where b2 is 0; the squared
\* error (e1^2 b2^2 + e2^2 b1^2) / b2^4, and 0 where b2 is 0, kept when this,
\* h1 or h2 has the Sumw2 structure
Divide(this, h1, h2) ==
    LET has == this.hasSumw2 \/ h1.hasSumw2 \/ h2.hasSumw2
    IN  [this EXCEPT
           !.c = [b \in Slots(this.nbins) |->
                    IF h2.c[b] # Zero THEN Div(h1.c[b], h2.c[b]) ELSE Zero],
           !.hasSumw2 = has,
           !.sumw2 = IF ~has THEN @
                     ELSE [b \in Slots(this.nbins) |->
                             IF h2.c[b] = Zero THEN Zero
                             ELSE LET b22 == Mul(h2.c[b], h2.c[b])
                                  IN  Div(Add(Mul(GetBinError2(h1, b), b22),
                                              Mul(GetBinError2(h2, b),
                                                  Mul(h1.c[b], h1.c[b]))),
                                          Mul(b22, b22))]]

\* mutant: the contents are added
Multiply_added(this, h1, h2) ==
    [this EXCEPT !.c = [b \in Slots(this.nbins) |-> Add(h1.c[b], h2.c[b])]]

\* this->Multiply(h1, h2): per slot b1 b2, squared error e1^2 b2^2 + e2^2 b1^2
Multiply(this, h1, h2) ==
    LET has == this.hasSumw2 \/ h1.hasSumw2 \/ h2.hasSumw2
    IN  [this EXCEPT
           !.c = [b \in Slots(this.nbins) |-> Mul(h1.c[b], h2.c[b])],
           !.hasSumw2 = has,
           !.sumw2 = IF ~has THEN @
                     ELSE [b \in Slots(this.nbins) |->
                             Add(Mul(GetBinError2(h1, b), Mul(h2.c[b], h2.c[b])),
                                 Mul(GetBinError2(h2, b), Mul(h1.c[b], h1.c[b])))]]

\* df.Foreach(filler, ...) from row i on, in a call made on the object obj:
\* the rows of the stream in order
RECURSIVE Foreach(_, _, _, _)
Foreach(obj, df, i, grid) ==
    IF i > Len(df) THEN grid
    ELSE Foreach(obj, df, i + 1,
                 fillerOn(obj, grid, Events[df[i]][1], Events[df[i]][2],
                          Events[df[i]][3], Events[df[i]][4]))

\* one whole call obj.ComputeDVCS_CrossSection(df, bins, luminosity) and its
\* result
CrossSection(obj, df, lumi) ==
    normalize(Foreach(obj, df, 1, NewGrid(q2_bins, t_bins, xb_bins)), lumi)

\* mutant: the four grids are computed on the object CalcPi0Corr was called on
pi0Corr_this == This

\* DISANAMath pi0Corr: the local, default-constructed object
pi0Corr == [applyCorrection |-> FALSE, correctionHist |-> 0]

\* mutant: the simulation quotient is taken upside down
hRatio_inverted(h_dvcs_mc, h_pi0_mc, h_dvcs_data, h_pi0_data) ==
    LET r0 == Reset(Clone(h_dvcs_mc))
        r1 == Divide(r0, h_pi0_mc, h_dvcs_mc)
        r2 == Multiply(r1, r1, h_pi0_data)
    IN  Divide(r2, r2, h_dvcs_data)

\* the histogram of one cell with all four inputs: the clone, reset, then
\* Divide, Multiply, Divide
hRatio(h_dvcs_mc, h_pi0_mc, h_dvcs_data, h_pi0_data) ==
    LET r0 == Reset(Clone(h_dvcs_mc))
        r1 == Divide(r0, h_dvcs_mc, h_pi0_mc)
        r2 == Multiply(r1, r1, h_pi0_data)
    IN  Divide(r2, r2, h_dvcs_data)

\* some of the four histograms of the cell is nullptr
Pi0_missing(g1, g2, g3, g4, xb, q2, t) ==
    \/ g1[xb][q2][t].isNull
    \/ g2[xb][q2][t].isNull
    \/ g3[xb][q2][t].isNull
    \/ g4[xb][q2][t].isNull

\* the three loops: hCorr starts all nullptr and gets hRatio wherever the
\* four histograms exist
Pi0_loops(g1, g2, g3, g4, n_xb, n_q2, n_t) ==
    [xb \in 1 .. n_xb |-> [q2 \in 1 .. n_q2 |-> [t \in 1 .. n_t |->
        IF Pi0_missing(g1, g2, g3, g4, xb, q2, t) THEN NullHist
        ELSE hRatio(g1[xb][q2][t], g2[xb][q2][t], g3[xb][q2][t], g4[xb][q2][t])]]]

\* the lines the loops write to std::cerr, in the order t, Q2, xB of the loops
Pi0_cerr(g1, g2, g3, g4, n_xb, n_q2, n_t) ==
    SelectSeq([k \in 1 .. (n_t * n_q2 * n_xb) |->
                  <<"Missing histogram", ((k - 1) \div n_xb) % n_q2,
                    (k - 1) % n_xb, (k - 1) \div (n_xb * n_q2)>>],
              LAMBDA m : Pi0_missing(g1, g2, g3, g4, m[3] + 1, m[2] + 1, m[4] + 1))

\* the row streams the four arguments range over
DataFrames == { <<>>, <<1>>, <<1, 1>>, <<4, 1>>, <<4, 1, 2, 8>> }

\* CalcPi0Corr is entered on a default-constructed object; the bins are
\* those of xBins
InitPi0 ==
    /\ InitObject
    /\ InitCall
    /\ InitAux
    /\ InitNoBSA
    /\ InitNoKin
    /\ InitNoTiled
    /\ df_dvcs_mc \in DataFrames
    /\ df_pi0_mc \in DataFrames
    /\ df_dvcs_data \in DataFrames
    /\ df_pi0_data \in DataFrames
    /\ df_dvcs_mc_CrossSection = <<>>
    /\ df_pi0_mc_CrossSection = <<>>
    /\ df_dvcs_data_CrossSection = <<>>
    /\ df_pi0_data_CrossSection = <<>>
    /\ hCorr = <<>>
    /\ pi0_pc = "call"

CalcPi0Corr ==
    /\ pi0_pc = "call"
    /\ LET n_t  == Len(t_bins) - 1
           n_q2 == Len(q2_bins) - 1
           n_xb == Len(xb_bins) - 1
           g1   == CrossSection(pi0Corr, df_dvcs_mc, One)
           g2   == CrossSection(pi0Corr, df_pi0_mc, One)
           g3   == CrossSection(pi0Corr, df_dvcs_data, One)
           g4   == CrossSection(pi0Corr, df_pi0_data, One)
       IN  /\ df_dvcs_mc_CrossSection' = g1
           /\ df_pi0_mc_CrossSection' = g2
           /\ df_dvcs_data_CrossSection' = g3
           /\ df_pi0_data_CrossSection' = g4
           /\ hCorr' = Pi0_loops(g1, g2, g3, g4, n_xb, n_q2, n_t)
           /\ cerr' = cerr \o Pi0_cerr(g1, g2, g3, g4, n_xb, n_q2, n_t)
    /\ pi0_pc' = "returned"
    /\ UNCHANGED <<binVars, corrVars, callVars, probe, workers, sigma_pos, sigma_neg,
                   pol, asym, result, bsa_pc, pi0Inputs, kinVars, tiledVars>>

SpecPi0 == InitPi0 /\ [][CalcPi0Corr]_vars

\* the row streams of the calls made on an object whose flag and table are set
CallerDataFrames == { <<>>, <<4>>, <<4, 3, 1>> }

\* a default-constructed object on which CalcPi0Corr is about to be called
InitPi0Caller ==
    /\ InitObject
    /\ InitCall
    /\ InitAux
    /\ InitNoBSA
    /\ InitNoKin
    /\ InitNoTiled
    /\ df_dvcs_mc \in CallerDataFrames
    /\ df_pi0_mc \in CallerDataFrames
    /\ df_dvcs_data \in CallerDataFrames
    /\ df_pi0_data \in CallerDataFrames
    /\ df_dvcs_mc_CrossSection = <<>>
    /\ df_pi0_mc_CrossSection = <<>>
    /\ df_dvcs_data_CrossSection = <<>>
    /\ df_pi0_data_CrossSection = <<>>
    /\ hCorr = <<>>
    /\ pi0_pc = "call"

\* any sequence of setter calls on the object, then CalcPi0Corr on it
NextPi0Caller ==
    \/ (pi0_pc = "call" /\ SetApplyCorrPi0BKG)
    \/ (pi0_pc = "call" /\ SetCorrHist)
    \/ CalcPi0Corr

SpecPi0Caller == InitPi0Caller /\ [][NextPi0Caller]_vars

----------------------------------------------------------------------------
(* C14, C15, C16: the background correction *)

\* the four operands of bin b of a cell: signalSimulation, backgroundSimulation,
\* signalData, backgroundData
SigSim(cell, b)  == GetBinContent(At(df_dvcs_mc_CrossSection, cell), b)
BkgSim(cell, b)  == GetBinContent(At(df_pi0_mc_CrossSection, cell), b)
SigData(cell, b) == GetBinContent(At(df_dvcs_data_CrossSection, cell), b)
BkgData(cell, b) == GetBinContent(At(df_pi0_data_CrossSection, cell), b)

\* the angular bins of the returned grid, and those with both denominators
\* non-zero
CorrBins == GridCells(hCorr) \X (1 .. n_phi_bins)

DefinedBins ==
    {cb \in CorrBins : BkgSim(cb[1], cb[2]) # Zero /\ SigData(cb[1], cb[2]) # Zero}

\* C14.  For every cell and every angular bin in which both denominators are
\* non-zero, ratio = (signalSimulation / backgroundSimulation) x
\* (backgroundData / signalData), the operands being the bin contents of the
\* DVCS-MC, pi0-MC, pi0-data and DVCS-data grids at that cell and bin.
CorrectionRatio ==
    pi0_pc = "returned" =>
        \A cb \in DefinedBins :
            /\ ~At(hCorr, cb[1]).isNull
            /\ GetBinContent(At(hCorr, cb[1]), cb[2]) =
                  Mul(Div(SigSim(cb[1], cb[2]), BkgSim(cb[1], cb[2])),
                      Div(BkgData(cb[1], cb[2]), SigData(cb[1], cb[2])))

\* a call has returned a ratio that is neither 0 nor 1 from a simulation
\* quotient that is not 1
CorrectionRatioComputed ==
    /\ pi0_pc = "returned"
    /\ \E cb \in DefinedBins :
          /\ SigSim(cb[1], cb[2]) # BkgSim(cb[1], cb[2])
          /\ GetBinContent(At(hCorr, cb[1]), cb[2]) \notin {Zero, One}

\* the simulation grids are the data grids
IdenticalSamples ==
    /\ df_dvcs_mc_CrossSection = df_dvcs_data_CrossSection
    /\ df_pi0_mc_CrossSection = df_pi0_data_CrossSection

\* C15 as stated.  When the signalSimulation grid equals the signalData grid
\* and the backgroundSimulation grid equals the backgroundData grid, the
\* ratio is 1 in every angular bin of every cell, bins in which no event was
\* accumulated included.
IdenticalGiveOne ==
    (pi0_pc = "returned" /\ IdenticalSamples) =>
        \A cb \in CorrBins : GetBinContent(At(hCorr, cb[1]), cb[2]) = One

\* C15, amended.  When the signalSimulation grid equals the signalData grid
\* and the backgroundSimulation grid equals the backgroundData grid, the
\* ratio is 1 in every angular bin where both the signal and the background
\* content are non-zero, and 0 in every other bin.
IdenticalGiveOneWhereFilled ==
    (pi0_pc = "returned" /\ IdenticalSamples) =>
        \A cb \in CorrBins :
            GetBinContent(At(hCorr, cb[1]), cb[2]) =
                IF SigSim(cb[1], cb[2]) # Zero /\ BkgSim(cb[1], cb[2]) # Zero
                THEN One ELSE Zero

\* a call on identical samples has returned a grid with a bin of ratio 1, a
\* bin of signal without background and a bin without any event
IdenticalReturned ==
    /\ pi0_pc = "returned"
    /\ IdenticalSamples
    /\ \E cb \in CorrBins : GetBinContent(At(hCorr, cb[1]), cb[2]) = One
    /\ \E cb \in CorrBins : SigSim(cb[1], cb[2]) # Zero /\ BkgSim(cb[1], cb[2]) = Zero
    /\ \E cb \in CorrBins : SigSim(cb[1], cb[2]) = Zero /\ BkgSim(cb[1], cb[2]) = Zero

\* what a bin of the returned grid holds: content and squared error
Marker(cb) ==
    <<GetBinContent(At(hCorr, cb[1]), cb[2]), GetBinError2(At(hCorr, cb[1]), cb[2])>>

\* the call does not abort: it returns a grid of the shape of the bin grid,
\* with every cell whose four histograms exist computed and every other
\* cell absent
CorrectionNotFatal ==
    /\ hCorr # <<>>
    /\ ShapeOf(hCorr) = ShapeOf(df_dvcs_mc_CrossSection)
    /\ \A cell \in GridCells(hCorr) :
          At(hCorr, cell).isNull <=>
              \/ At(df_dvcs_mc_CrossSection, cell).isNull
              \/ At(df_pi0_mc_CrossSection, cell).isNull
              \/ At(df_dvcs_data_CrossSection, cell).isNull
              \/ At(df_pi0_data_CrossSection, cell).isNull

\* C16 as stated.  A bin whose backgroundSimulation content or signalData
\* content is zero yields an undefined-value marker that no computed ratio
\* has, a genuine ratio of 0 in particular, and never aborts the
\* computation; a cell where any of the four histograms is absent is skipped
\* and the remaining cells are computed.
UndefinedMarked ==
    pi0_pc = "returned" =>
        /\ CorrectionNotFatal
        /\ {Marker(cb) : cb \in CorrBins \ DefinedBins}
              \cap {Marker(cb) : cb \in DefinedBins} = {}

\* C16, amended.  A bin whose backgroundSimulation content or signalData
\* content is zero gets content 0 and error 0, which is also what a genuine
\* ratio of 0 gets, and never aborts the computation; a cell where any of the
\* four histograms is absent is skipped and the remaining cells are computed.
UndefinedIsZero ==
    pi0_pc = "returned" =>
        /\ CorrectionNotFatal
        /\ \A cb \in CorrBins \ DefinedBins : Marker(cb) = <<Zero, Zero>>

\* a call has returned a grid with a bin whose backgroundSimulation is zero
\* under a non-zero signalSimulation, a genuine ratio of 0 and a ratio that is
\* not 0
UndefinedAndZeroReturned ==
    /\ pi0_pc = "returned"
    /\ \E cb \in CorrBins \ DefinedBins :
          /\ BkgSim(cb[1], cb[2]) = Zero
          /\ SigSim(cb[1], cb[2]) # Zero
          /\ Marker(cb) = <<Zero, Zero>>
    /\ \E cb \in DefinedBins : Marker(cb) = <<Zero, Zero>>
    /\ \E cb \in DefinedBins : Marker(cb)[1] # Zero

----------------------------------------------------------------------------
(* C17: the correction lookup *)

\* the entries of a table whose 4-D cell contains the point of row e
EntriesAt(tab, e) ==
    {k \in DOMAIN tab.filled :
        \A a \in 1 .. 4 :
            /\ k[a] >= 1
            /\ k[a] < Len(tab.axes[a])
            /\ tab.axes[a][k[a]] <= Events[e][a]
            /\ Events[e][a] < tab.axes[a][k[a] + 1]}

\* the factor stated for row e: 1 when the flag is off, when no table is set
\* and when the table holds no entry for the point, else the stored factor
StatedFactor(e) ==
    IF ~applyCorrection \/ correctionHist = 0 THEN One
    ELSE LET tab == Tables[correctionHist]
         IN  IF EntriesAt(tab, e) = {} THEN One
             ELSE tab.filled[CHOOSE k \in EntriesAt(tab, e) : TRUE]

\* C17.  The lookup returns 1.0 wherever the correction is absent or
\* disabled: with the flag off, with no table set, and with an enabled table
\* for every point the table holds no entry for; otherwise the stored factor
\* of the 4-D cell containing the point.  Seen at the one place the factor is
\* used: an accepted row adds it to the content of its slot.
LookupDefaultsToOne ==
    [][(IsForeachStep /\ Accepted(StepEvent)) =>
           LET e    == StepEvent
               cell == CellOf(e)
               b    == SlotOf(Events[e][4])
           IN  GetBinContent(At(histograms', cell), b) =
                   Add(GetBinContent(At(histograms, cell), b), StatedFactor(e))]_vars

----------------------------------------------------------------------------
(* BinManager's setters with any argument *)

\* vectors a caller can pass to a setter: empty, one edge, a repeated edge,
\* decreasing, increasing, and increasing only at first
AnyEdges == { <<>>, <<100>>, <<100, 100>>, <<200, 100>>, <<100, 200>>, <<100, 300, 200>> }

SetQ2Bins_any ==
    /\ pc = "idle"
    /\ \E bins \in AnyEdges : q2_bins' = bins
    /\ UNCHANGED <<t_bins, xb_bins, corrVars, callVars, probe, workers, bsaVars, pi0Vars, kinVars, tiledVars>>

SetTBins_any ==
    /\ pc = "idle"
    /\ \E bins \in AnyEdges : t_bins' = bins
    /\ UNCHANGED <<q2_bins, xb_bins, corrVars, callVars, probe, workers, bsaVars, pi0Vars, kinVars, tiledVars>>

SetXBBins_any ==
    /\ pc = "idle"
    /\ \E bins \in AnyEdges : xb_bins' = bins
    /\ UNCHANGED <<q2_bins, t_bins, corrVars, callVars, probe, workers, bsaVars, pi0Vars, kinVars, tiledVars>>

SpecBinManager == Init /\ [][SetQ2Bins_any \/ SetTBins_any \/ SetXBBins_any]_vars

\* the size_t value of size() - 1: size - 1, and for size 0 the wrapped
\* value 2^64 - 1, which the flag stands for
SizeMinusOne(size) ==
    [wrapped |-> size = 0, value |-> IF size = 0 THEN 0 ELSE size - 1]

\* n_q2, n_t and n_xb as ComputeDVCS_CrossSection and CalcPi0Corr compute them
GridDims ==
    <<SizeMinusOne(Len(q2_bins)), SizeMinusOne(Len(t_bins)), SizeMinusOne(Len(xb_bins))>>

----------------------------------------------------------------------------
(* C18: the edge lists *)

StrictlyIncreasing(edges) ==
    \A i \in 1 .. (Len(edges) - 1) : edges[i] < edges[i + 1]

\* C18.  Each of the three edge lists has length >= 2 and is strictly
\* increasing in every reachable state, after construction and after any
\* sequence of SetQ2Bins, SetTBins and SetXBBins calls; so the grid
\* dimensions size - 1 are always >= 1 and never wrap around.
EdgeListsWellFormed ==
    /\ \A edges \in {q2_bins, t_bins, xb_bins} :
          Len(edges) >= 2 /\ StrictlyIncreasing(edges)
    /\ \A i \in 1 .. 3 : ~GridDims[i].wrapped /\ GridDims[i].value >= 1

----------------------------------------------------------------------------
(* ComputeKinematics *)
(* Four-vectors are <<px, py, pz, E>> with integer components.  The fields  *)
(* that are square roots or arc cosines of them (ptmiss_, delta_phi_,       *)
(* theta_gg_, Theta_e_gamma_) are not part of the state; W_ holds Mag() by  *)
(* its signed square, which is Mag2().                                      *)

Plus4(a, b) == <<a[1] + b[1], a[2] + b[2], a[3] + b[3], a[4] + b[4]>>

Minus4(a, b) == <<a[1] - b[1], a[2] - b[2], a[3] - b[3], a[4] - b[4]>>

\* TLorentzVector::Vect
Vect(v) == <<v[1], v[2], v[3]>>

\* TVector3::Dot, TVector3::Cross
Dot3(a, b) == a[1] * b[1] + a[2] * b[2] + a[3] * b[3]

Cross(a, b) ==
    <<a[2] * b[3] - b[2] * a[3], a[3] * b[1] - b[3] * a[1], a[1] * b[2] - b[1] * a[2]>>

\* TLorentzVector::Dot and Mag2: E E' - p.p'
Dot4(a, b) == a[4] * b[4] - Dot3(Vect(a), Vect(b))

Mag2(v) == Dot4(v, v)

\* an angle in degrees: the value lo when lo = hi, else some value strictly
\* between lo and hi
Exactly(d) == [lo |-> d, hi |-> d]

\* the values std::atan2(sin_phi, cos_phi) can take, in degrees, where
\* sin_phi = s / (|n_L| |n_H| |q|) and cos_phi = c / (|n_L| |n_H|) with
\* lengths taken as 1 where they are 0 (TVector3::Unit), and q2 = |q|^2.
\* A zero sine stands for +0.0 or -0.0, which the products and sums of the
\* components decide: both outcomes are kept.  Angles off the multiples of
\* 45 degrees are given by the two multiples around them.
Atan2Deg(s, c, q2) ==
    IF s = 0
    THEN (IF c > 0 THEN {Exactly(0)}
          ELSE IF c < 0 THEN {Exactly(180), Exactly(-180)}
          ELSE {Exactly(0), Exactly(180), Exactly(-180)})
    ELSE IF c = 0 THEN {Exactly(90 * Sign(s))}
    ELSE LET cmp   == s * s - c * c * q2
             first == IF cmp < 0 THEN [lo |-> 0, hi |-> 45]
                      ELSE IF cmp = 0 THEN Exactly(45)
                      ELSE [lo |-> 45, hi |-> 90]
             upper == IF c > 0 THEN first
                      ELSE [lo |-> 180 - first.hi, hi |-> 180 - first.lo]
         IN  {IF s > 0 THEN upper ELSE [lo |-> -upper.hi, hi |-> -upper.lo]}

\* mutant: Q2_ = q.Mag2(), the sign dropped
Q2_of_unsigned(q) == Num(Mag2(q))

\* Q2_ = -q.Mag2()
Q2_of(q) == Num(-Mag2(q))

\* the four-vectors the events are built from: a beam along z, scattered
\* leptons of the beam's energy (forward, backward, sideways) and of less,
\* recoil protons in and out of the lepton plane, one of them at rest
LeptonsIn == { <<0, 0, 5, 5>> }

LeptonsOut == { <<0, 0, 5, 5>>, <<3, 0, 4, 5>>, <<0, 4, 3, 5>>, <<0, 0, -5, 5>>,
                <<1, 0, 2, 3>>, <<0, 2, 1, 3>>, <<1, 1, 2, 3>> }

ProtonsIn == { <<0, 0, 0, 1>> }

ProtonsOut == { <<-1, 0, 1, 2>>, <<1, 0, 1, 2>>, <<0, 1, 1, 2>>, <<0, -1, 1, 2>>,
                <<1, 1, 1, 2>>, <<-1, 2, 1, 3>>, <<0, 0, 0, 1>> }

Photons == { <<0, 0, 2, 2>>, <<0, 1, 0, 1>> }

\* ComputeKinematics is entered
InitKin ==
    /\ InitObject
    /\ InitCall
    /\ InitAux
    /\ InitNoBSA
    /\ InitNoPi0
    /\ InitNoTiled
    /\ electron_in \in LeptonsIn
    /\ electron_out \in LeptonsOut
    /\ proton_in \in ProtonsIn
    /\ proton_out \in ProtonsOut
    /\ photon \in Photons
    /\ Q2_ = NaN /\ nu_ = NaN /\ y_ = NaN /\ W_ = NaN /\ xB_ = NaN /\ t_ = NaN
    /\ phi_deg_ = NaN
    /\ mx2_ep_ = NaN /\ emiss_ = NaN /\ mx2_epg_ = NaN /\ mx2_egamma_ = NaN
    /\ DeltaE_ = NaN
    /\ kin_pc = "call"

ComputeKinematics ==
    /\ kin_pc = "call"
    /\ LET q             == Minus4(electron_in, electron_out)
           n_L           == Cross(Vect(electron_in), Vect(electron_out))
           n_H           == Cross(Vect(q), Vect(proton_out))
           cos_phi       == Dot3(n_L, n_H)
           sin_phi       == Dot3(Cross(n_L, n_H), Vect(q))
           total_initial == Plus4(electron_in, proton_in)
           total_final   == Plus4(Plus4(electron_out, proton_out), photon)
           missing       == Minus4(total_initial, total_final)
       IN  /\ Q2_' = Q2_of(q)
           /\ nu_' = Num(q[4])
           /\ y_' = Div(Num(q[4]), Num(electron_in[4]))
           /\ W_' = Num(Mag2(Plus4(proton_in, q)))
           /\ xB_' = Div(Q2_of(q), Mul(Num(2), Num(Dot4(proton_in, q))))
           /\ t_' = AbsNum(Num(Mag2(Minus4(proton_in, proton_out))))
           /\ \E a \in Atan2Deg(sin_phi, cos_phi, Dot3(Vect(q), Vect(q))) :
                 phi_deg_' = [lo |-> a.lo + 180, hi |-> a.hi + 180]
           /\ mx2_ep_' = Num(Mag2(Minus4(Minus4(total_initial, electron_out), proton_out)))
           /\ emiss_' = Num(missing[4])
           /\ mx2_epg_' = Num(Mag2(missing))
           /\ mx2_egamma_' =
                 Num(Mag2(Minus4(Minus4(Plus4(electron_in, proton_in), electron_out), photon)))
           /\ DeltaE_' = Num((electron_in[4] + proton_in[4])
                             - (electron_out[4] + proton_out[4] + photon[4]))
    /\ kin_pc' = "returned"
    /\ UNCHANGED <<binVars, corrVars, callVars, probe, workers, bsaVars, pi0Vars, kinInputs, tiledVars>>

SpecKin == InitKin /\ [][ComputeKinematics]_vars

----------------------------------------------------------------------------
(* C19: the elastic limit *)

\* the outgoing lepton has the energy of the incoming one
SameLeptonEnergy == electron_out[4] = electron_in[4]

\* the square of the three-momentum the lepton lost
MomentumTransfer2 ==
    (electron_in[1] - electron_out[1]) * (electron_in[1] - electron_out[1])
    + (electron_in[2] - electron_out[2]) * (electron_in[2] - electron_out[2])
    + (electron_in[3] - electron_out[3]) * (electron_in[3] - electron_out[3])

\* C19 as stated.  Whenever the outgoing lepton has the energy of the
\* incoming lepton, for any outgoing direction, Q2 = -(k - k')^2 and
\* y = nu / E_beam both evaluate to 0.
ElasticLimitZero ==
    (kin_pc = "returned" /\ SameLeptonEnergy) => (Q2_ = Zero /\ y_ = Zero)

\* C19, amended.  Whenever the outgoing lepton has the energy of the incoming
\* lepton, y = nu / E_beam evaluates to 0 and Q2 = -(k - k')^2 to the square
\* of the three-momentum transfer |k - k'|^2, which is 0 only when the
\* outgoing momentum equals the incoming one.
ElasticLimitMomentumTransfer ==
    (kin_pc = "returned" /\ SameLeptonEnergy) =>
        /\ nu_ = Zero
        /\ y_ = Zero
        /\ Q2_ = Num(MomentumTransfer2)
        /\ (Q2_ = Zero <=> Vect(electron_out) = Vect(electron_in))

\* the fields are set for a lepton scattered sideways with the beam's energy
ElasticSidewaysComputed ==
    /\ kin_pc = "returned"
    /\ SameLeptonEnergy
    /\ electron_out[1] # 0
    /\ Q2_[1] > 0
    /\ y_ = Zero

----------------------------------------------------------------------------
(* C20: the range of the azimuthal angle *)

\* neither plane normal is a zero vector
NonDegenerate ==
    /\ Cross(Vect(electron_in), Vect(electron_out)) # <<0, 0, 0>>
    /\ Cross(Vect(Minus4(electron_in, electron_out)), Vect(proton_out)) # <<0, 0, 0>>

\* C20.  For every non-degenerate event the azimuthal angle lies in
\* [0, 360) degrees: the shifted result is never exactly 360, so every
\* computed angle falls into one of the n_phi_bins angular bins.
AngleBelow360 ==
    (kin_pc = "returned" /\ NonDegenerate) =>
        /\ 0 <= phi_deg_.lo
        /\ IF phi_deg_.lo = phi_deg_.hi THEN phi_deg_.hi < 360 ELSE phi_deg_.hi <= 360
        /\ phi_deg_.lo = phi_deg_.hi =>
              AxisFindBin(phi_deg_.lo, n_phi_bins, phi_min, phi_max) \in 1 .. n_phi_bins

----------------------------------------------------------------------------
(* Order of the two passes of ComputeDVCS_CrossSection *)

\* the step on which the normalisation loop runs
IsNormalizeStep == pc = "fill" /\ pc' = "done"

\* the step on which the grid is allocated
IsAllocateStep == pc = "idle" /\ pc' = "fill"

\* on the normalisation step every angular bin of every cell is written once
\* (one entry counted per bin), from the content the accumulation left
NormalizedOnceFromRaw ==
    /\ seen' = seen
    /\ rawHist' = histograms
    /\ Cells(histograms') = Cells(histograms)
    /\ \A cell \in Cells(histograms) :
          /\ At(histograms', cell).entries
                = At(histograms, cell).entries + n_phi_bins
          /\ \A b \in 1 .. n_phi_bins :
                At(histograms', cell).c[b]
                    = Div(At(histograms, cell).c[b],
                          Mul(luminosity', Num((phi_max - phi_min) \div n_phi_bins)))

OrderedStep ==
    /\ seen' # seen => pc = "fill" /\ pc' = "fill"
    /\ histograms' # histograms =>
          IsAllocateStep \/ IsForeachStep \/ IsNormalizeStep
    /\ IsNormalizeStep => NormalizedOnceFromRaw
    /\ pc = "done" => pc' = "done" /\ histograms' = histograms /\ seen' = seen

\* C21.  Within one call of ComputeDVCS_CrossSection rows are accumulated
\* only before the normalisation, the grid changes only by the allocation,
\* by the accumulation of one row, or by the single normalisation step; on
\* that step every angular bin of every cell is normalised exactly once,
\* from the content all accumulated rows left, and nothing is accumulated
\* (and no bin normalised again) afterwards.
AccumulateThenNormalizeOnce == [][OrderedStep]_vars

\* a call that accumulated two rows into one bin and then normalised it
NormalizedAfterTwoRows ==
    /\ pc = "done"
    /\ Total(seen) = 2
    /\ luminosity = One
    /\ \E cell \in Cells(histograms) : \E b \in 1 .. n_phi_bins :
          /\ GetBinContent(At(rawHist, cell), b) = Num(2)
          /\ GetBinContent(At(histograms, cell), b) = <<1, 10>>
          /\ At(histograms, cell).entries = 2 + n_phi_bins

----------------------------------------------------------------------------
(* Conservation of the accumulated weight *)

\* row e has an angle on the angular axis
AngleInRange(e) == phi_min <= Events[e][4] /\ Events[e][4] < phi_max

\* the angular bins (outer slots excluded) of the grid that are not 0
FilledBins ==
    {x \in Cells(histograms) \X (1 .. n_phi_bins) :
        GetBinContent(At(histograms, x[1]), x[2]) # Zero}

RECURSIVE SumOfBins(_)
SumOfBins(S) ==
    IF S = {} THEN Zero
    ELSE LET x == CHOOSE y \in S : TRUE
         IN  Add(GetBinContent(At(histograms, x[1]), x[2]), SumOfBins(S \ {x}))

\* the total effective weight of the rows seen so far that are in E
RECURSIVE SumOfWeights(_)
SumOfWeights(E) ==
    IF E = {} THEN Zero
    ELSE LET e == CHOOSE y \in E : TRUE
         IN  Add(Mul(Num(seen[e]), WeightOf(e)), SumOfWeights(E \ {e}))

WeightConserved ==
    pc = "fill" =>
        SumOfBins(FilledBins)
            = SumOfWeights({e \in EventIds : Accepted(e) /\ AngleInRange(e)})

\* a row with in-range classifiers and an angle off the axis leaves the
\* angular bins of every cell as they were
OffAxisStep ==
    (IsForeachStep /\ Accepted(StepEvent) /\ ~AngleInRange(StepEvent)) =>
        /\ Cells(histograms') = Cells(histograms)
        /\ \A cell \in Cells(histograms) : \A b \in 1 .. n_phi_bins :
              At(histograms', cell).c[b] = At(histograms, cell).c[b]

\* C22.  Before the normalisation the contents of the n_phi_bins angular
\* bins, summed over all cells, equal the total effective weight of the rows
\* whose three classifiers are in range and whose angle is in
\* [phi_min, phi_max); a row with in-range classifiers and an angle below
\* phi_min or at or above phi_max changes no angular bin of any cell.
AngularWeightConserved == [][OffAxisStep]_vars /\ []WeightConserved

\* a row at 360 degrees and a row at 190 degrees, both with in-range
\* classifiers, were accumulated: the bins hold the weight of the second only
OffAxisRowAccumulated ==
    /\ pc = "fill"
    /\ Accepted(1) /\ Accepted(8)
    /\ seen[1] = 1 /\ seen[8] = 1
    /\ ~AngleInRange(8)
    /\ WeightOf(1) = One
    /\ SumOfBins(FilledBins) = One
    /\ GetBinContent(At(histograms, CellOf(8)), n_phi_bins + 1) = WeightOf(8)

----------------------------------------------------------------------------
(* CalcPi0Corr and the object it is called on *)

\* the number of rows of df whose classifiers are in range, in cell and slot b
RowsIn(df, cell, b) ==
    Cardinality({i \in 1 .. Len(df) :
                    /\ Accepted(df[i])
                    /\ CellOf(df[i]) = cell
                    /\ SlotOf(Events[df[i]][4]) = b})

\* grid is the cross-section of df with every factor 1.0 and exposure 1:
\* each angular bin holds its number of rows over the bin width, with the
\* error sqrt(rows) over the bin width
IsUncorrected(grid, df) ==
    LET width == Num((phi_max - phi_min) \div n_phi_bins)
    IN  /\ Cells(grid) = (1 .. Len(xb_bins) - 1) \X (1 .. Len(q2_bins) - 1)
                            \X (1 .. Len(t_bins) - 1)
        /\ \A cell \in Cells(grid) : \A b \in 1 .. n_phi_bins :
              /\ GetBinContent(At(grid, cell), b)
                    = Div(Num(RowsIn(df, cell, b)), width)
              /\ GetBinError2(At(grid, cell), b)
                    = Div(Num(RowsIn(df, cell, b)), Mul(width, width))

InputsUncorrected ==
    pi0_pc = "returned" =>
        /\ IsUncorrected(df_dvcs_mc_CrossSection, df_dvcs_mc)
        /\ IsUncorrected(df_pi0_mc_CrossSection, df_pi0_mc)
        /\ IsUncorrected(df_dvcs_data_CrossSection, df_dvcs_data)
        /\ IsUncorrected(df_pi0_data_CrossSection, df_pi0_data)

CallerUntouchedStep ==
    (pi0_pc = "call" /\ pi0_pc' = "returned") =>
        /\ applyCorrection' = applyCorrection
        /\ correctionHist' = correctionHist

\* C23.  Whatever SetApplyCorrPi0BKG and SetCorrHist calls were made on the
\* object CalcPi0Corr is called on, the four grids the ratio is taken of are
\* the cross-sections with correction factor 1.0 and exposure 1, and the call
\* leaves the enable flag and the table pointer of that object as they were.
Pi0InputsIgnoreCaller == [][CallerUntouchedStep]_vars /\ []InputsUncorrected

\* CalcPi0Corr returned on an object with the correction enabled and a table
\* set, for a stream with a row the table gives the factor 2 and a row it
\* gives the factor 0
ReturnedOnCorrectingCaller ==
    /\ pi0_pc = "returned"
    /\ applyCorrection /\ correctionHist = 1
    /\ df_dvcs_mc = <<4, 3, 1>>
    /\ fillWeight(Events[4][1], Events[4][2], Events[4][3], Events[4][4]) = Num(2)
    /\ fillWeight(Events[3][1], Events[3][2], Events[3][3], Events[3][4]) = Zero
    /\ GetBinContent(At(df_dvcs_mc_CrossSection, CellOf(4)), SlotOf(Events[4][4]))
          = <<1, 20>>
    /\ GetBinContent(At(df_dvcs_mc_CrossSection, CellOf(3)), SlotOf(Events[3][4]))
          = <<1, 20>>

----------------------------------------------------------------------------
(* DISANAcomparer::MakeTiledGridComparison on the grids the two combinations
   return.  The bin variables stand for the member fXbins. *)

HF == [HA EXCEPT !.c[5] = Num(3), !.sumw2[5] = Num(3)]

\* what ComputeBeamSpinAsymmetry returns for the inputs P and N and pol = 1
BSA_of(P, N) == BSA_return(BSA_run(P, N, One))

\* what CalcPi0Corr returns when each of the four streams is df
Pi0_of(df) ==
    LET g == CrossSection(pi0Corr, df, One)
    IN  Pi0_loops(g, g, g, g, Len(xb_bins) - 1, Len(q2_bins) - 1, Len(t_bins) - 1)

\* grids the two combinations return: complete, with a cell left null after a
\* skipped cell, empty after a shape mismatch, and a correction grid
TiledGrids ==
    { BSA_of(<< << <<HF, HA>> >> >>, << << <<HB, HB>> >> >>),
      BSA_of(<< << <<HA, HD>> >> >>, << << <<HB, HB>> >> >>),
      BSA_of(<< << <<HF, NullHist>> >> >>, << << <<HB, HB>> >> >>),
      BSA_of(<< << <<HA>> >> >>, <<>>),
      Pi0_of(<<1, 1>>) }

\* the comparer holds bins of one xB, one Q2 and two t intervals, and
\* MakeTiledGridComparison is entered with the grids of one or of two models
InitTiled ==
    /\ q2_bins = <<100, 200>>
    /\ t_bins = <<10, 30, 60>>
    /\ xb_bins = <<10, 20>>
    /\ applyCorrection = FALSE
    /\ correctionHist = 0
    /\ InitCall
    /\ InitAux
    /\ InitNoBSA
    /\ InitNoPi0
    /\ InitNoKin
    /\ \E gs \in TiledGrids \X TiledGrids :
          tiled_hists \in {<<gs[1]>>, <<gs[1], gs[2]>>}
    /\ tiled_pc = "call"
    /\ tiled_at = [t_bin |-> 0, q2_bin |-> 0, xb_bin |-> 0, m |-> 0]
    /\ tiled_fault = "none"
    /\ drawn = <<>>

\* the emptiness test of the entry: only the grid of model 0 is looked at
TiledEmpty(hs) ==
    \/ Len(hs) = 0
    \/ Len(hs[1]) = 0
    \/ Len(hs[1][1]) = 0
    \/ Len(hs[1][1][1]) = 0

\* the indices of the pass after the one at a, and whether there is one: m is
\* the innermost loop, then xb_bin, q2_bin, t_bin
TiledAdvance(a, n_models, n_xb, n_q2, n_t) ==
    IF a.m + 1 < n_models THEN [more |-> TRUE, at |-> [a EXCEPT !.m = @ + 1]]
    ELSE IF a.xb_bin + 1 < n_xb
    THEN [more |-> TRUE, at |-> [a EXCEPT !.m = 0, !.xb_bin = @ + 1]]
    ELSE IF a.q2_bin + 1 < n_q2
    THEN [more |-> TRUE, at |-> [a EXCEPT !.m = 0, !.xb_bin = 0, !.q2_bin = @ + 1]]
    ELSE IF a.t_bin + 1 < n_t
    THEN [more |-> TRUE,
          at |-> [a EXCEPT !.m = 0, !.xb_bin = 0, !.q2_bin = 0, !.t_bin = @ + 1]]
    ELSE [more |-> FALSE, at |-> a]

\* histograms[m][xb_bin][q2_bin][t_bin] indexes inside the vectors
TiledInside(hs, a) ==
    /\ a.m < Len(hs)
    /\ a.xb_bin < Len(hs[a.m + 1])
    /\ a.q2_bin < Len(hs[a.m + 1][a.xb_bin + 1])
    /\ a.t_bin < Len(hs[a.m + 1][a.xb_bin + 1][a.q2_bin + 1])

TiledFrame ==
    UNCHANGED <<binVars, corrVars, callVars, probe, workers, sigma_pos, sigma_neg, pol,
                asym, result, bsa_pc, pi0Vars, kinVars, tiled_hists>>

\* entry: the emptiness guard, the dimensions from fXbins, the loop headers
MakeTiledGridComparison ==
    /\ tiled_pc = "call"
    /\ LET n_q2 == Len(q2_bins) - 1
           n_t  == Len(t_bins) - 1
           n_xb == Len(xb_bins) - 1
       IN  IF TiledEmpty(tiled_hists)
           THEN /\ cerr' = Append(cerr, <<"No histograms to compare.">>)
                /\ tiled_pc' = "returned"
           ELSE /\ cerr' = cerr
                /\ tiled_pc' = (IF n_t > 0 /\ n_q2 > 0 /\ n_xb > 0
                                THEN "loop" ELSE "returned")
    /\ UNCHANGED <<tiled_at, tiled_fault, drawn>>
    /\ TiledFrame

\* one pass of the loop over m: the histogram is read from the grid of model
\* m, styled through the pointer, and only then tested for null and for an
\* empty bin 5; a histogram that passes the test is drawn
TiledPass ==
    /\ tiled_pc = "loop"
    /\ LET a    == tiled_at
           next == TiledAdvance(a, Len(tiled_hists), Len(xb_bins) - 1,
                                Len(q2_bins) - 1, Len(t_bins) - 1)
       IN  IF ~TiledInside(tiled_hists, a)
           THEN /\ tiled_fault' = "range"
                /\ tiled_pc' = "undefined"
                /\ UNCHANGED <<tiled_at, drawn>>
           ELSE LET h == tiled_hists[a.m + 1][a.xb_bin + 1][a.q2_bin + 1][a.t_bin + 1]
                IN  IF h.isNull
                    THEN /\ tiled_fault' = "null"
                         /\ tiled_pc' = "undefined"
                         /\ UNCHANGED <<tiled_at, drawn>>
                    ELSE /\ drawn' = (IF GetBinContent(h, 5) = Zero THEN drawn
                                      ELSE Append(drawn, <<a.m, a.xb_bin, a.q2_bin, a.t_bin>>))
                         /\ tiled_at' = next.at
                         /\ tiled_pc' = (IF next.more THEN "loop" ELSE "returned")
                         /\ UNCHANGED tiled_fault
    /\ UNCHANGED cerr
    /\ TiledFrame

\* what follows an access outside a vector or through a null pointer is not
\* defined: the process is killed, or the pass goes by and the loop carries on
TiledUndefined ==
    /\ tiled_pc = "undefined"
    /\ LET next == TiledAdvance(tiled_at, Len(tiled_hists), Len(xb_bins) - 1,
                                Len(q2_bins) - 1, Len(t_bins) - 1)
       IN  \/ /\ tiled_pc' = "crashed"
              /\ UNCHANGED tiled_at
           \/ /\ tiled_at' = next.at
              /\ tiled_pc' = (IF next.more THEN "loop" ELSE "returned")
    /\ UNCHANGED <<tiled_fault, drawn, cerr>>
    /\ TiledFrame

NextTiled ==
    \/ MakeTiledGridComparison
    \/ TiledPass
    \/ TiledUndefined

SpecTiled == InitTiled /\ [][NextTiled]_vars

\* C24.  Whatever grids ComputeBeamSpinAsymmetry and CalcPi0Corr returned
\* (complete, with null cells, or empty after a shape mismatch),
\* MakeTiledGridComparison never reads through a null histogram pointer and
\* never indexes a grid outside its dimensions.
TiledNeverUndefined == tiled_fault = "none" /\ tiled_pc # "crashed"

====
